---------------------------- MODULE Spec2Model ----------------------------
(***************************************************************************)
(* Model of the two analytics routines of src/main.go: the spending        *)
(* summarizer (analyzeTransactions) and the recurring-payment detector     *)
(* (analyzeForSubscriptions, isRegularPattern, detectFrequency,            *)
(* calculateConfidence, calculateTotalMonthlyCost).                        *)
(*                                                                         *)
(* Number representation.  The Go code computes in float64.  Here money is *)
(* an integer number of thousandths of the currency unit ("mils"), so that *)
(* 9.99 is 9990 and 9.994 is 9994; a value printed with "%.2f" is an       *)
(* integer number of cents.  Quotients (the mean interval, a percentage,   *)
(* the average daily spend) are kept as exact fractions and compared by    *)
(* cross-multiplication.  Timestamps are whole hours since an epoch.       *)
(* Text is a sequence of one-character strings.                            *)
(***************************************************************************)
EXTENDS Integers, Sequences, FiniteSets, TLC

VARIABLES
    transactions,   \* the []map[string]interface{} handed to the analysis
    days,           \* analyzeTransactions' days argument
    analysis,       \* the map analyzeTransactions returned (or NotRun)
    spendLocals,    \* analyzeTransactions' local variables at its return
    subParams,      \* cutoffDate, minAmount, maxAmount of analyzeForSubscriptions
    subLocals,      \* analyzeForSubscriptions' paymentGroups at its return
    subscriptions,  \* the slice analyzeForSubscriptions returned
    monthlyCost,    \* calculateTotalMonthlyCost(subscriptions), in cents
    now,            \* what time.Now() returns during the call
    warnings,       \* the slice generateWarnings returned
    probe,          \* the (occurrences, intervals) handed to the interval tests
    probeResult,    \* what the interval tests returned for them (or NotRun)
    phase,          \* "input": the input is being supplied; "done": analysed
    calls           \* the tool invocations in progress: each handler's locals

vars == << transactions, days, analysis, spendLocals, subParams, subLocals,
           subscriptions, monthlyCost, now, warnings, probe, probeResult, phase,
           calls >>

spendingVars == << days, analysis, spendLocals >>

subscriptionVars ==
    << subParams, subLocals, subscriptions, monthlyCost, now, warnings >>

patternVars == << probe, probeResult >>

-----------------------------------------------------------------------------
(* Text *)

UpperChars ==
    << "A","B","C","D","E","F","G","H","I","J","K","L","M",
       "N","O","P","Q","R","S","T","U","V","W","X","Y","Z" >>

LowerChars ==
    << "a","b","c","d","e","f","g","h","i","j","k","l","m",
       "n","o","p","q","r","s","t","u","v","w","x","y","z" >>

ToLowerChar(c) ==
    IF \E i \in DOMAIN UpperChars : UpperChars[i] = c
    THEN LowerChars[CHOOSE i \in DOMAIN UpperChars : UpperChars[i] = c]
    ELSE c

\* strings.ToLower
ToLower(s) == [i \in DOMAIN s |-> ToLowerChar(s[i])]

\* strings.Contains
Contains(s, substr) ==
    \E i \in 0..(Len(s) - Len(substr)) : SubSeq(s, i + 1, i + Len(substr)) = substr

ContainsAny(s, keywords) == \E k \in DOMAIN keywords : Contains(s, keywords[k])

FoodKeywords ==
    << <<"s","t","a","r","b","u","c","k","s">>,
       <<"c","o","f","f","e","e">>,
       <<"c","h","i","p","o","t","l","e">>,
       <<"p","i","z","z","a">>,
       <<"f","o","o","d">>,
       <<"d","o","o","r","d","a","s","h">>,
       <<"r","e","s","t","a","u","r","a","n","t">>,
       <<"c","a","f","e">> >>

TransportationKeywords ==
    << <<"u","b","e","r">>,
       <<"l","y","f","t">>,
       <<"g","a","s">>,
       <<"m","e","t","r","o">>,
       <<"p","a","r","k","i","n","g">> >>

ShoppingKeywords ==
    << <<"a","m","a","z","o","n">>,
       <<"t","a","r","g","e","t">>,
       <<"n","i","k","e">>,
       <<"s","t","o","r","e">> >>

EntertainmentKeywords ==
    << <<"n","e","t","f","l","i","x">>,
       <<"s","p","o","t","i","f","y">>,
       <<"m","o","v","i","e">>,
       <<"s","t","e","a","m">>,
       <<"h","u","l","u">>,
       <<"d","i","s","n","e","y">> >>

BillsKeywords ==
    << <<"b","i","l","l">>,
       <<"e","l","e","c","t","r","i","c">>,
       <<"i","n","t","e","r","n","e","t">>,
       <<"p","h","o","n","e">> >>

\* The Shopping keywords tested before the Food & Dining ones.
categorizeTransactionShoppingFirst(description) ==
    LET text == ToLower(description)
    IN  IF ContainsAny(text, ShoppingKeywords) THEN "Shopping"
        ELSE IF ContainsAny(text, FoodKeywords) THEN "Food & Dining"
        ELSE IF ContainsAny(text, TransportationKeywords) THEN "Transportation"
        ELSE IF ContainsAny(text, EntertainmentKeywords) THEN "Entertainment"
        ELSE IF ContainsAny(text, BillsKeywords) THEN "Bills & Utilities"
        ELSE "Other"

categorizeTransaction(description) ==
    LET text == ToLower(description)
    IN  IF ContainsAny(text, FoodKeywords) THEN "Food & Dining"
        ELSE IF ContainsAny(text, TransportationKeywords) THEN "Transportation"
        ELSE IF ContainsAny(text, ShoppingKeywords) THEN "Shopping"
        ELSE IF ContainsAny(text, EntertainmentKeywords) THEN "Entertainment"
        ELSE IF ContainsAny(text, BillsKeywords) THEN "Bills & Utilities"
        ELSE "Other"

StarbucksCoffee == <<"S","t","a","r","b","u","c","k","s"," ","C","o","f","f","e","e">>
UberRide == <<"U","b","e","r"," ","R","i","d","e">>
TargetStore == <<"T","a","r","g","e","t"," ","S","t","o","r","e">>
NetflixSubscription ==
    <<"N","e","t","f","l","i","x"," ","S","u","b","s","c","r","i","p","t","i","o","n">>
ElectricBill == <<"E","l","e","c","t","r","i","c"," ","B","i","l","l">>
Rent == <<"R","e","n","t">>
PayrollDeposit == <<"P","a","y","r","o","l","l"," ","D","e","p","o","s","i","t">>
WholeFoodsStore ==
    <<"W","h","o","l","e"," ","F","o","o","d","s"," ","S","t","o","r","e">>
SpotifyPremium == <<"S","p","o","t","i","f","y"," ","P","r","e","m","i","u","m">>

\* The descriptions the supplied transactions carry ("" is a missing one).
Descriptions ==
    { << >>, StarbucksCoffee, UberRide, TargetStore, NetflixSubscription,
      ElectricBill, Rent, PayrollDeposit, WholeFoodsStore, SpotifyPremium }

\* categorizeTransaction tabulated over Descriptions.
CategoryTable == [d \in Descriptions |-> categorizeTransaction(d)]

-----------------------------------------------------------------------------
(* Numbers *)

\* The integer nearest to num/den (den > 0), a tie going to the even one:
\* what fmt.Sprintf("%.Nf") prints of the exact quotient.
RoundHalfEven(num, den) ==
    LET q == num \div den
        r == num % den
    IN  IF 2 * r < den THEN q
        ELSE IF 2 * r > den THEN q + 1
        ELSE IF q % 2 = 0 THEN q ELSE q + 1

\* fmt.Sprintf("%.2f", x) of an amount in mils: the cents printed.
Sprintf2(mils) == RoundHalfEven(mils, 10)

\* A field read with a Go type assertion `v, _ := tx[k].(T)`: the field holds
\* [ok |-> the key is present with type T, v |-> its value]; a failed
\* assertion yields T's zero value.
AssertOr(field, zero) == IF field.ok THEN field.v ELSE zero

Present(v) == [ok |-> TRUE, v |-> v]
MissingNumber == [ok |-> FALSE, v |-> 0]

\* m[k] += v on a Go map: a missing key reads as zero.
MapAdd(m, k, v) ==
    IF k \in DOMAIN m THEN [m EXCEPT ![k] = @ + v] ELSE m @@ (k :> v)

EmptyMap == [k \in {} |-> 0]

-----------------------------------------------------------------------------
(* Spending summary: analyzeTransactions *)

NotRun == [notRun |-> TRUE]

NoLocals == [none |-> TRUE]

\* Every type but 'receive' taken as spending.
TallyAllButReceive(acc, tx) ==
    LET txType == tx.type
        amount == AssertOr(tx.amount, 0)
        category == CategoryTable[tx.description]
    IN  IF txType = "receive"
        THEN [acc EXCEPT !.totalReceived = @ + amount,
                         !.receiveCount = @ + 1]
        ELSE [acc EXCEPT !.totalSpent = @ + amount,
                         !.spendCount = @ + 1,
                         !.categorySpending = MapAdd(@, category, amount),
                         !.categoryCount = MapAdd(@, category, 1)]

\* The loop body over one transaction: the switch on its type.
Tally(acc, tx) ==
    LET txType == tx.type
        amount == AssertOr(tx.amount, 0)
        category == CategoryTable[tx.description]
    IN  IF txType = "send"
        THEN [acc EXCEPT !.totalSpent = @ + amount,
                         !.spendCount = @ + 1,
                         !.categorySpending = MapAdd(@, category, amount),
                         !.categoryCount = MapAdd(@, category, 1)]
        ELSE IF txType = "receive"
        THEN [acc EXCEPT !.totalReceived = @ + amount,
                         !.receiveCount = @ + 1]
        ELSE acc

RECURSIVE TallyFrom(_, _, _)
TallyFrom(txs, i, acc) ==
    IF i > Len(txs) THEN acc ELSE TallyFrom(txs, i + 1, Tally(acc, txs[i]))

TallyAll(txs) ==
    TallyFrom(txs, 1, [totalSpent |-> 0, totalReceived |-> 0,
                       spendCount |-> 0, receiveCount |-> 0,
                       categorySpending |-> EmptyMap,
                       categoryCount |-> EmptyMap])

\* The operands of the subtraction exchanged.
NetCashFlowSwapped(totalReceived, totalSpent) == totalSpent - totalReceived

NetCashFlow(totalReceived, totalSpent) == totalReceived - totalSpent

\* A quotient kept exact: num/den with den > 0.
Fraction(num, den) == [num |-> num, den |-> den]

AvgDailySpend(totalSpent, d) == Fraction(totalSpent, d)

\* The factor 100 forgotten.
PercentageUnscaled(amount, totalSpent) ==
    IF totalSpent > 0 THEN Fraction(amount, totalSpent) ELSE Fraction(0, 1)

Percentage(amount, totalSpent) ==
    IF totalSpent > 0 THEN Fraction(amount * 100, totalSpent) ELSE Fraction(0, 1)

\* The categoryInfo structs built from the categorySpending map.
CategoryInfos(t) ==
    { [name |-> n,
       amount |-> t.categorySpending[n],
       count |-> t.categoryCount[n],
       percentage |-> Percentage(t.categorySpending[n], t.totalSpent)]
      : n \in DOMAIN t.categorySpending }

\* The comparison turned round: lowest first.
CategoryLessAscending(a, b) == a.amount < b.amount

\* The comparison handed to sort.Slice.
CategoryLess(a, b) == a.amount > b.amount

\* Every order sort.Slice can leave the structs in.  The map is ranged over
\* in an unspecified order and sort.Slice is not stable, so entries the
\* comparison does not separate may come out in any order.
RECURSIVE SortedCategories(_)
SortedCategories(S) ==
    IF S = {} THEN { << >> }
    ELSE UNION { { <<c>> \o rest : rest \in SortedCategories(S \ {c}) }
                 : c \in { c \in S : \A d \in S : ~CategoryLess(d, c) } }

TopLimit == 5

Min(a, b) == IF a < b THEN a ELSE b

\* The top_categories slice: amount in cents, percentage in tenths of a
\* percent, as the "%.2f" and "%.1f%%" strings print them.
TopCategories(categories) ==
    [i \in 1..Min(Len(categories), TopLimit) |->
        [category |-> categories[i].name,
         amount |-> Sprintf2(categories[i].amount),
         count |-> categories[i].count,
         percentage |-> RoundHalfEven(categories[i].percentage.num * 10,
                                      categories[i].percentage.den)]]

\* Exactly 2 a week taken as 'low'.
calculateVelocityOverTwo(transactionCount, d) ==
    IF transactionCount * 7 <= 2 * d THEN "low"
    ELSE IF transactionCount * 7 < 7 * d THEN "moderate"
    ELSE "high"

calculateVelocity(transactionCount, d) ==
    \* txPerWeek = count / days * 7, compared with 2 and 7 (days > 0)
    IF transactionCount * 7 < 2 * d THEN "low"
    ELSE IF transactionCount * 7 < 7 * d THEN "moderate"
    ELSE "high"

Insights(l, topCategories) ==
    << [msg |-> "spending transactions", n |-> l.spendCount, days |-> l.days],
       [msg |-> "average daily spend", value |-> l.avgDailySpend] >>
    \o (IF l.netCashFlow > 0
        THEN << [msg |-> "cash flow positive", cents |-> Sprintf2(l.netCashFlow)] >>
        ELSE IF l.netCashFlow < 0
        THEN << [msg |-> "spent more than received", cents |-> Sprintf2(-l.netCashFlow)] >>
        ELSE << >>)
    \o (IF Len(topCategories) > 0
        THEN << [msg |-> "biggest category", name |-> l.categories[1].name,
                 percent |-> RoundHalfEven(l.categories[1].percentage.num,
                                           l.categories[1].percentage.den)] >>
        ELSE << >>)

\* The local variables of analyzeTransactions at its return, for one order
\* `categories` the sort left.
SpendingLocals(t, d, categories) ==
        [totalSpent |-> t.totalSpent,
         totalReceived |-> t.totalReceived,
         spendCount |-> t.spendCount,
         receiveCount |-> t.receiveCount,
         categorySpending |-> t.categorySpending,
         categoryCount |-> t.categoryCount,
         days |-> d,
         avgDailySpend |-> AvgDailySpend(t.totalSpent, d),
         netCashFlow |-> NetCashFlow(t.totalReceived, t.totalSpent),
         categories |-> categories]

\* The map analyzeTransactions returns.  Sums and percentages are held as
\* the digits their format prints; avg_daily_spend is held as the exact
\* quotient it is the "%.2f" of.
SpendingResult(l) ==
    LET topCategories == TopCategories(l.categories)
    IN  [total_spent |-> Sprintf2(l.totalSpent),
         total_received |-> Sprintf2(l.totalReceived),
         net_cash_flow |-> Sprintf2(l.netCashFlow),
         spend_count |-> l.spendCount,
         receive_count |-> l.receiveCount,
         avg_daily_spend |-> l.avgDailySpend,
         velocity |-> calculateVelocity(l.spendCount, l.days),
         top_categories |-> topCategories,
         insights |-> Insights(l, topCategories)]

NoTransactionsResult == [summary |-> "No transactions found in the specified period"]

\* The empty list summed like any other.
analyzeTransactionsUnguarded(txs, d) ==
    LET t == TallyAll(txs)
    IN  { [locals |-> SpendingLocals(t, d, categories),
           result |-> SpendingResult(SpendingLocals(t, d, categories))]
          : categories \in SortedCategories(CategoryInfos(t)) }

\* analyzeTransactions(transactions, days): the set of (locals, result) pairs
\* it can end with.
analyzeTransactions(txs, d) ==
    IF Len(txs) = 0
    THEN { [locals |-> NoLocals, result |-> NoTransactionsResult] }
    ELSE LET t == TallyAll(txs)
         IN  { [locals |-> SpendingLocals(t, d, categories),
                result |-> SpendingResult(SpendingLocals(t, d, categories))]
               : categories \in SortedCategories(CategoryInfos(t)) }

-----------------------------------------------------------------------------
(* Time: a time.Time is a number of hours since 1970-01-01T00:00Z *)

HoursPerDay == 24

\* The civil date (UTC) of a day number counted from 1970-01-01.
CivilFromDays(z0) ==
    LET z == z0 + 719468
        era == z \div 146097
        doe == z - era * 146097
        yoe == (doe - doe \div 1460 + doe \div 36524 - doe \div 146096) \div 365
        doy == doe - (365 * yoe + yoe \div 4 - yoe \div 100)
        mp == (5 * doy + 2) \div 153
        d == doy - (153 * mp + 2) \div 5 + 1
        m == IF mp < 10 THEN mp + 3 ELSE mp - 9
    IN  [year |-> yoe + era * 400 + (IF m <= 2 THEN 1 ELSE 0), month |-> m, day |-> d]

\* The day number of a civil date; a day past the end of the month runs on
\* into the next one, as time.Date normalises it.
DaysFromCivil(year, month, day) ==
    LET y == IF month <= 2 THEN year - 1 ELSE year
        era == y \div 400
        yoe == y - era * 400
        doy == (153 * (IF month > 2 THEN month - 3 ELSE month + 9) + 2) \div 5 + day - 1
        doe == yoe * 365 + yoe \div 4 - yoe \div 100 + doy
    IN  era * 146097 + doe - 719468

\* t.AddDate(years, months, days)
AddDate(t, years, months, ds) ==
    LET c == CivilFromDays(t \div HoursPerDay)
        m0 == c.month - 1 + months
        year == c.year + years + (m0 \div 12)
        month == (m0 % 12) + 1
    IN  (DaysFromCivil(year, month, 1) + c.day - 1 + ds) * HoursPerDay + (t % HoursPerDay)

\* t.Format("2006-01-02")
FormatDate(t) == CivilFromDays(t \div HoursPerDay)

\* int(x) of a quotient a/b with b > 0: truncation toward zero.
TruncDiv(a, b) == IF a >= 0 THEN a \div b ELSE -((-a) \div b)

-----------------------------------------------------------------------------
(* Recurring-payment detection: the interval tests *)

RECURSIVE SeqSum(_)
SeqSum(s) == IF s = << >> THEN 0 ELSE Head(s) + SeqSum(Tail(s))

\* The tolerance taken as 10% of the mean.
isRegularPatternTight(intervals) ==
    IF Len(intervals) = 0 THEN FALSE
    ELSE LET sum == SeqSum(intervals)
             n == Len(intervals)
             withinTolerance ==
                 Cardinality({ i \in DOMAIN intervals :
                     10 * (IF n * intervals[i] - sum < 0 THEN sum - n * intervals[i]
                           ELSE n * intervals[i] - sum) <= sum })
         IN  10 * withinTolerance >= 7 * n

\* isRegularPattern: with avg = sum/n, |interval - avg| <= avg * 0.2 is
\* 5 * |n * interval - sum| <= sum, and within/n >= 0.7 is 10 * within >= 7 * n.
\* The float64 test gives the same verdict whenever no interval lies exactly
\* on the tolerance or the mean is a whole number; an interval exactly on
\* the tolerance of a fractional mean (14 in [10,11,14]) can fall either
\* side in float64, and no interval list used here has one.
isRegularPattern(intervals) ==
    IF Len(intervals) = 0 THEN FALSE
    ELSE LET sum == SeqSum(intervals)
             n == Len(intervals)
             withinTolerance ==
                 Cardinality({ i \in DOMAIN intervals :
                     5 * (IF n * intervals[i] - sum < 0 THEN sum - n * intervals[i]
                          ELSE n * intervals[i] - sum) <= sum })
         IN  10 * withinTolerance >= 7 * n

\* The weekly range tested before the biweekly one.
detectFrequencyWeeklyFirst(intervals) ==
    IF Len(intervals) = 0 THEN "unknown"
    ELSE LET sum == SeqSum(intervals)
             n == Len(intervals)
         IN  IF sum >= 25 * n /\ sum <= 35 * n THEN "monthly"
             ELSE IF sum >= 80 * n /\ sum <= 100 * n THEN "quarterly"
             ELSE IF sum >= 170 * n /\ sum <= 190 * n THEN "semi-annual"
             ELSE IF sum >= 350 * n /\ sum <= 380 * n THEN "annual"
             ELSE IF sum >= 1 * n /\ sum <= 7 * n THEN "weekly"
             ELSE IF sum >= 7 * n /\ sum <= 14 * n THEN "biweekly"
             ELSE "irregular"

\* detectFrequency: avgDays >= lo && avgDays <= hi is lo*n <= sum <= hi*n.
detectFrequency(intervals) ==
    IF Len(intervals) = 0 THEN "unknown"
    ELSE LET sum == SeqSum(intervals)
             n == Len(intervals)
         IN  IF sum >= 25 * n /\ sum <= 35 * n THEN "monthly"
             ELSE IF sum >= 80 * n /\ sum <= 100 * n THEN "quarterly"
             ELSE IF sum >= 170 * n /\ sum <= 190 * n THEN "semi-annual"
             ELSE IF sum >= 350 * n /\ sum <= 380 * n THEN "annual"
             ELSE IF sum >= 7 * n /\ sum <= 14 * n THEN "biweekly"
             ELSE IF sum >= 1 * n /\ sum <= 7 * n THEN "weekly"
             ELSE "irregular"

UnknownDate == [known |-> FALSE, date |-> [year |-> 0, month |-> 0, day |-> 0]]

KnownDate(t) == [known |-> TRUE, date |-> FormatDate(t)]

\* A month taken as 30 days.
estimateNextPaymentThirtyDays(lastPayment, frequency) ==
    IF frequency = "monthly" THEN KnownDate(AddDate(lastPayment, 0, 0, 30))
    ELSE IF frequency = "quarterly" THEN KnownDate(AddDate(lastPayment, 0, 3, 0))
    ELSE IF frequency = "semi-annual" THEN KnownDate(AddDate(lastPayment, 0, 6, 0))
    ELSE IF frequency = "annual" THEN KnownDate(AddDate(lastPayment, 1, 0, 0))
    ELSE IF frequency = "biweekly" THEN KnownDate(AddDate(lastPayment, 0, 0, 14))
    ELSE IF frequency = "weekly" THEN KnownDate(AddDate(lastPayment, 0, 0, 7))
    ELSE UnknownDate

estimateNextPayment(lastPayment, frequency) ==
    IF frequency = "monthly" THEN KnownDate(AddDate(lastPayment, 0, 1, 0))
    ELSE IF frequency = "quarterly" THEN KnownDate(AddDate(lastPayment, 0, 3, 0))
    ELSE IF frequency = "semi-annual" THEN KnownDate(AddDate(lastPayment, 0, 6, 0))
    ELSE IF frequency = "annual" THEN KnownDate(AddDate(lastPayment, 1, 0, 0))
    ELSE IF frequency = "biweekly" THEN KnownDate(AddDate(lastPayment, 0, 0, 14))
    ELSE IF frequency = "weekly" THEN KnownDate(AddDate(lastPayment, 0, 0, 7))
    ELSE UnknownDate

\* 'high' only above four occurrences.
calculateConfidenceAboveFour(occurrences, intervals) ==
    IF occurrences > 4 /\ isRegularPattern(intervals) THEN "high"
    ELSE IF occurrences >= 3 THEN "medium"
    ELSE "low"

calculateConfidence(occurrences, intervals) ==
    IF occurrences >= 4 /\ isRegularPattern(intervals) THEN "high"
    ELSE IF occurrences >= 3 THEN "medium"
    ELSE "low"

-----------------------------------------------------------------------------
(* Recurring-payment detection: analyzeForSubscriptions *)

Unknown == <<"U","n","k","n","o","w","n">>

\* The merchant of a transaction: its description, else its recipient, else
\* "Unknown".
MerchantOf(tx) ==
    IF tx.description # << >> THEN tx.description
    ELSE IF tx.recipient # << >> THEN tx.recipient
    ELSE Unknown

\* The key built from the amount as it is, not from its two-decimal string.
PaymentKeyUnrounded(tx) ==
    [merchant |-> MerchantOf(tx), amount |-> AssertOr(tx.amount, 0)]

\* paymentKey{merchant, fmt.Sprintf("%.2f", amount)}: the amount string is
\* held as the cents it prints.
PaymentKey(tx) ==
    [merchant |-> MerchantOf(tx), amount |-> Sprintf2(AssertOr(tx.amount, 0))]

\* The time.Time that time.Parse(time.RFC3339, txDateStr) returns: the
\* instant, in hours, and the offset of its location, in hours east of UTC.
TimeOf(date) == [t |-> date.t, zone |-> date.zone]

\* The wall clock of a time.Time in its location, which AddDate and Format
\* work on.
Local(time) == time.t + time.zone

\* paymentGroups[key] = append(paymentGroups[key], t)
MapAppend(m, k, t) ==
    IF k \in DOMAIN m THEN [m EXCEPT ![k] = Append(@, t)] ELSE m @@ (k :> <<t>>)

\* A date equal to the cutoff skipped too.
CollectAfterCutoff(groups, tx, p) ==
    LET amount == AssertOr(tx.amount, 0)
    IN  IF tx.type # "send" THEN groups
        ELSE IF amount < p.minAmount \/ amount > p.maxAmount THEN groups
        ELSE IF ~tx.date.ok THEN groups
        ELSE IF ~tx.date.parses THEN groups
        ELSE IF tx.date.t <= p.cutoffDate THEN groups
        ELSE MapAppend(groups, PaymentKey(tx), TimeOf(tx.date))

\* The first loop's body over one transaction: the filters, then the append.
Collect(groups, tx, p) ==
    LET amount == AssertOr(tx.amount, 0)
    IN  IF tx.type # "send" THEN groups
        ELSE IF amount < p.minAmount \/ amount > p.maxAmount THEN groups
        ELSE IF ~tx.date.ok THEN groups
        ELSE IF ~tx.date.parses THEN groups
        ELSE IF tx.date.t < p.cutoffDate THEN groups
        ELSE MapAppend(groups, PaymentKey(tx), TimeOf(tx.date))

RECURSIVE CollectFrom(_, _, _, _)
CollectFrom(txs, i, groups, p) ==
    IF i > Len(txs) THEN groups
    ELSE CollectFrom(txs, i + 1, Collect(groups, txs[i], p), p)

PaymentGroups(txs, p) == CollectFrom(txs, 1, EmptyMap, p)

RECURSIVE InsertTime(_, _)
InsertTime(t, sorted) ==
    IF sorted = << >> THEN <<t>>
    ELSE IF t.t < Head(sorted).t THEN <<t>> \o sorted
    ELSE <<Head(sorted)>> \o InsertTime(t, Tail(sorted))

RECURSIVE SortFrom(_, _, _)
SortFrom(dates, i, sorted) ==
    IF i > Len(dates) THEN sorted
    ELSE SortFrom(dates, i + 1, InsertTime(dates[i], sorted))

\* sort.Slice(dates, Before): the dates in chronological order.  A slice of
\* 12 or fewer is sorted by insertion, which leaves dates of the same
\* instant in the order they were appended in.
SortDates(dates) == SortFrom(dates, 1, << >>)

\* int(dates[i].Sub(dates[i-1]).Hours() / 24) for i = 1 .. len(dates)-1
Intervals(dates) ==
    [i \in 1..(Len(dates) - 1) |-> TruncDiv(dates[i + 1].t - dates[i].t, HoursPerDay)]

\* last_occurrence and estimated_next taken from dates[0], the earliest.
SubscriptionFromFirstDate(key, dates, intervals) ==
    LET amount == key.amount
        frequency == detectFrequency(intervals)
    IN  [merchant |-> key.merchant,
         amount |-> amount,
         frequency |-> frequency,
         occurrences |-> Len(dates),
         last_occurrence |-> FormatDate(Local(dates[1])),
         estimated_next |-> estimateNextPayment(Local(dates[1]), frequency),
         total_paid |-> amount * Len(dates),
         confidence |-> calculateConfidence(Len(dates), intervals)]

\* The subscription map built for a group that passed the regularity test.
\* amount and total_paid are in cents.
Subscription(key, dates, intervals) ==
    LET amount == key.amount
        frequency == detectFrequency(intervals)
    IN  [merchant |-> key.merchant,
         amount |-> amount,
         frequency |-> frequency,
         occurrences |-> Len(dates),
         last_occurrence |-> FormatDate(Local(dates[Len(dates)])),
         estimated_next |-> estimateNextPayment(Local(dates[Len(dates)]), frequency),
         total_paid |-> amount * Len(dates),
         confidence |-> calculateConfidence(Len(dates), intervals)]

\* The second loop's body over one group: the subscriptions it appends.
Detect(key, groupDates) ==
    IF Len(groupDates) < 2 THEN { }
    ELSE LET dates == SortDates(groupDates)
             intervals == Intervals(dates)
         IN  IF isRegularPattern(intervals)
             THEN { Subscription(key, dates, intervals) }
             ELSE { }

\* Every order in which the elements of S can be appended to a slice.
RECURSIVE Orders(_)
Orders(S) ==
    IF S = {} THEN { << >> }
    ELSE UNION { { <<x>> \o rest : rest \in Orders(S \ {x}) } : x \in S }

\* analyzeForSubscriptions(transactions, cutoffDate, minAmount, maxAmount):
\* the (paymentGroups, returned slice) pairs it can end with.  The groups
\* are ranged over in map order, which is unspecified.
analyzeForSubscriptions(txs, p) ==
    IF Len(txs) = 0
    THEN { [locals |-> [paymentGroups |-> EmptyMap], result |-> << >>] }
    ELSE LET groups == PaymentGroups(txs, p)
             found == UNION { Detect(key, groups[key]) : key \in DOMAIN groups }
         IN  { [locals |-> [paymentGroups |-> groups], result |-> subs]
               : subs \in Orders(found) }

\* The denominator the monthly shares are expressed in: 1/12000 of a cent
\* holds amount/3, /6, /12, *2.167 and *4.333 exactly.
ShareUnit == 12000

\* An annual amount divided by 10, not 12.
MonthlyShareAnnualTenth(sub) ==
    IF sub.frequency = "monthly" THEN sub.amount * ShareUnit
    ELSE IF sub.frequency = "quarterly" THEN sub.amount * (ShareUnit \div 3)
    ELSE IF sub.frequency = "semi-annual" THEN sub.amount * (ShareUnit \div 6)
    ELSE IF sub.frequency = "annual" THEN sub.amount * (ShareUnit \div 10)
    ELSE IF sub.frequency = "biweekly" THEN sub.amount * ((2167 * ShareUnit) \div 1000)
    ELSE IF sub.frequency = "weekly" THEN sub.amount * ((4333 * ShareUnit) \div 1000)
    ELSE 0

\* A frequency the switch has no case for counted as a monthly one.
MonthlyShareElseMonthly(sub) ==
    IF sub.frequency = "quarterly" THEN sub.amount * (ShareUnit \div 3)
    ELSE IF sub.frequency = "semi-annual" THEN sub.amount * (ShareUnit \div 6)
    ELSE IF sub.frequency = "annual" THEN sub.amount * (ShareUnit \div 12)
    ELSE IF sub.frequency = "biweekly" THEN sub.amount * ((2167 * ShareUnit) \div 1000)
    ELSE IF sub.frequency = "weekly" THEN sub.amount * ((4333 * ShareUnit) \div 1000)
    ELSE sub.amount * ShareUnit

\* What one subscription adds to totalMonthly, in 1/ShareUnit cents.
MonthlyShare(sub) ==
    IF sub.frequency = "monthly" THEN sub.amount * ShareUnit
    ELSE IF sub.frequency = "quarterly" THEN sub.amount * (ShareUnit \div 3)
    ELSE IF sub.frequency = "semi-annual" THEN sub.amount * (ShareUnit \div 6)
    ELSE IF sub.frequency = "annual" THEN sub.amount * (ShareUnit \div 12)
    ELSE IF sub.frequency = "biweekly" THEN sub.amount * ((2167 * ShareUnit) \div 1000)
    ELSE IF sub.frequency = "weekly" THEN sub.amount * ((4333 * ShareUnit) \div 1000)
    ELSE 0

RECURSIVE TotalMonthlyFrom(_, _, _)
TotalMonthlyFrom(subs, i, totalMonthly) ==
    IF i > Len(subs) THEN totalMonthly
    ELSE TotalMonthlyFrom(subs, i + 1, totalMonthly + MonthlyShare(subs[i]))

\* math.Round(x): the nearest integer to num/den (den > 0), a tie going away
\* from zero.
MathRound(num, den) ==
    IF num >= 0 THEN (2 * num + den) \div (2 * den)
    ELSE -((2 * (-num) + den) \div (2 * den))

\* calculateTotalMonthlyCost: math.Round(totalMonthly*100)/100, in cents.
calculateTotalMonthlyCost(subs) == MathRound(TotalMonthlyFrom(subs, 1, 0), ShareUnit)

-----------------------------------------------------------------------------
(* Recurring-payment detection: generateWarnings *)

StreamingKeywords ==
    << <<"n","e","t","f","l","i","x">>,
       <<"h","u","l","u">>,
       <<"d","i","s","n","e","y">>,
       <<"p","r","i","m","e">>,
       <<"s","p","o","t","i","f","y">>,
       <<"h","b","o">>,
       <<"a","p","p","l","e"," ","t","v">>,
       <<"y","o","u","t","u","b","e"," ","p","r","e","m","i","u","m">> >>

MusicKeywords ==
    << <<"s","p","o","t","i","f","y">>,
       <<"a","p","p","l","e"," ","m","u","s","i","c">>,
       <<"y","o","u","t","u","b","e"," ","m","u","s","i","c">>,
       <<"t","i","d","a","l">>,
       <<"p","a","n","d","o","r","a">> >>

CloudKeywords ==
    << <<"d","r","o","p","b","o","x">>,
       <<"g","o","o","g","l","e"," ","o","n","e">>,
       <<"i","c","l","o","u","d">>,
       <<"o","n","e","d","r","i","v","e">> >>

FitnessKeywords ==
    << <<"p","e","l","o","t","o","n">>,
       <<"c","l","a","s","s","p","a","s","s">>,
       <<"a","p","p","l","e"," ","f","i","t","n","e","s","s">>,
       <<"s","t","r","a","v","a">>,
       <<"p","l","a","n","e","t"," ","f","i","t","n","e","s","s">> >>

SoftwareKeywords ==
    << <<"a","d","o","b","e">>,
       <<"g","i","t","h","u","b">>,
       <<"o","f","f","i","c","e">> >>

\* knownPatterns: the keywords of each category.
KnownPatterns ==
    [streaming |-> StreamingKeywords, music |-> MusicKeywords,
     cloud |-> CloudKeywords, fitness |-> FitnessKeywords,
     software |-> SoftwareKeywords]

\* The categories with a keyword that the description, in lower case,
\* contains.
KeywordCategories(d) ==
    { category \in DOMAIN KnownPatterns : ContainsAny(ToLower(d), KnownPatterns[category]) }

\* KeywordCategories tabulated over Descriptions.
KeywordTable == [d \in Descriptions |-> KeywordCategories(d)]

\* The categories whose slice the merchant is appended to.
CategoriesOf(merchant) ==
    IF merchant \in Descriptions THEN KeywordTable[merchant]
    ELSE KeywordCategories(merchant)

\* The merchants appended to merchantCategories[category] by the loop over
\* the subscriptions from the i-th on: one append for a subscription whose
\* merchant, in lower case, contains a keyword (break).
RECURSIVE MerchantsFrom(_, _, _, _)
MerchantsFrom(subs, i, category, merchants) ==
    IF i > Len(subs) THEN merchants
    ELSE MerchantsFrom(subs, i + 1, category,
             IF category \in CategoriesOf(subs[i].merchant)
             THEN Append(merchants, subs[i].merchant)
             ELSE merchants)

\* The merchantCategories map: a category is a key once it has a merchant.
MerchantCategories(subs) ==
    [category \in UNION { CategoriesOf(subs[i].merchant) : i \in DOMAIN subs } |->
        MerchantsFrom(subs, 1, category, << >>)]

\* A suggestion for a category with one merchant too.
MultipleFromOne(merchantCategories) ==
    Orders({ [msg |-> "multiple subscriptions", category |-> category,
              merchants |-> merchantCategories[category]]
             : category \in { c \in DOMAIN merchantCategories :
                                Len(merchantCategories[c]) > 0 } })

\* The "multiple ... subscriptions" warnings, in every order the range over
\* the merchantCategories map can append them.
Multiple(merchantCategories) ==
    Orders({ [msg |-> "multiple subscriptions", category |-> category,
              merchants |-> merchantCategories[category]]
             : category \in { c \in DOMAIN merchantCategories :
                                Len(merchantCategories[c]) > 1 } })

\* time.Parse("2006-01-02", lastDateStr): midnight UTC of that date.
ParseDate(date) == DaysFromCivil(date.year, date.month, date.day) * HoursPerDay

InactiveDays == 90

\* The "seems inactive" warnings of the subscriptions from the i-th on.
RECURSIVE InactiveFrom(_, _, _, _)
InactiveFrom(subs, i, current, inactive) ==
    IF i > Len(subs) THEN inactive
    ELSE InactiveFrom(subs, i + 1, current,
             IF /\ subs[i].occurrences < 3
                /\ current - ParseDate(subs[i].last_occurrence) > InactiveDays * HoursPerDay
             THEN Append(inactive, [msg |-> "seems inactive",
                                    merchant |-> subs[i].merchant,
                                    last |-> subs[i].last_occurrence])
             ELSE inactive)

TipThreshold == 5000

\* The tip given from 50.00 on.
TipFromThreshold(totalMonthly) ==
    IF totalMonthly >= TipThreshold
    THEN { << [msg |-> "tip", cents |-> c] >>
           : c \in IF totalMonthly % 10 = 5
                    THEN { totalMonthly \div 10, totalMonthly \div 10 + 1 }
                    ELSE { MathRound(totalMonthly, 10) } }
    ELSE { << >> }

\* The tip: math.Round(totalMonthly*0.1*100)/100 in cents, for a total in
\* cents.  A total ending in 5 puts the product on or next to a half in
\* float64, and it is rounded up for most such totals and down for some:
\* both cents are outcomes here.
Tip(totalMonthly) ==
    IF totalMonthly > TipThreshold
    THEN { << [msg |-> "tip", cents |-> c] >>
           : c \in IF totalMonthly % 10 = 5
                    THEN { totalMonthly \div 10, totalMonthly \div 10 + 1 }
                    ELSE { MathRound(totalMonthly, 10) } }
    ELSE { << >> }

\* generateWarnings(subscriptions), called when time.Now() is `current`:
\* the slices it can return.
generateWarnings(subs, current) ==
    IF Len(subs) = 0
    THEN { << [msg |-> "no subscriptions detected"] >> }
    ELSE LET totalMonthly == calculateTotalMonthlyCost(subs)
             summary == << [msg |-> "monthly total", cents |-> totalMonthly] >>
             inactive == InactiveFrom(subs, 1, current, << >>)
         IN  { summary \o multiple \o inactive \o tip
               : multiple \in Multiple(MerchantCategories(subs)),
                 tip \in Tip(totalMonthly) }

-----------------------------------------------------------------------------
(* Transactions supplied to the spending summary *)

\* The "date" of a transaction: whether it is a string, whether the string
\* parses as RFC3339, the instant it names and its offset from UTC.
DateAt(hours) == [ok |-> TRUE, parses |-> TRUE, t |-> hours, zone |-> 0]
DateIn(hours, zone) == [ok |-> TRUE, parses |-> TRUE, t |-> hours, zone |-> zone]
MissingDate == [ok |-> FALSE, parses |-> FALSE, t |-> 0, zone |-> 0]
UnparseableDate == [ok |-> TRUE, parses |-> FALSE, t |-> 0, zone |-> 0]

\* A transaction map.  type, description and recipient hold the string a
\* type assertion yields ("" when the key is missing or no string).
Tx(type, amount, description, date) ==
    [type |-> type, amount |-> amount, description |-> description,
     recipient |-> << >>, date |-> date]

\* A transaction map with no description, naming its payee in "recipient".
TxTo(type, amount, recipient, date) ==
    [type |-> type, amount |-> amount, description |-> << >>,
     recipient |-> recipient, date |-> date]

SpendingPool ==
    << Tx("send", Present(12500), StarbucksCoffee, DateAt(0)),
       Tx("send", Present(12500), UberRide, DateAt(0)),
       Tx("send", Present(30000), TargetStore, DateAt(0)),
       Tx("send", Present(15990), NetflixSubscription, DateAt(0)),
       Tx("send", Present(80000), ElectricBill, DateAt(0)),
       Tx("send", Present(9994), Rent, DateAt(0)),
       Tx("receive", Present(100000), PayrollDeposit, DateAt(0)),
       Tx("deposit", Present(50000), Rent, DateAt(0)),
       Tx("send", MissingNumber, WholeFoodsStore, DateAt(0)),
       Tx("", Present(7000), UberRide, DateAt(0)) >>

DaysPool == {7, 30}

MaxTransactions == 6

\* The position of the last transaction supplied in `pool` (0 for none):
\* lists are enumerated in pool order, one list per multiset.
LastSupplied(pool) ==
    IF transactions = << >> THEN 0
    ELSE CHOOSE i \in DOMAIN pool : pool[i] = transactions[Len(transactions)]

NoParams == [none |-> TRUE]

NoProbe == [occurrences |-> 0, intervals |-> << >>]

\* No tool is being invoked.
NoCalls == << >>

InitSpending ==
    /\ transactions = << >>
    /\ days \in DaysPool
    /\ analysis = NotRun
    /\ spendLocals = NoLocals
    /\ subParams = NoParams
    /\ subLocals = NoLocals
    /\ subscriptions = << >>
    /\ monthlyCost = 0
    /\ now = 0
    /\ warnings = << >>
    /\ probe = NoProbe
    /\ probeResult = NotRun
    /\ phase = "input"
    /\ calls = NoCalls

\* The caller appends one more transaction to the list it will hand over.
SupplySpending ==
    /\ phase = "input"
    /\ Len(transactions) < MaxTransactions
    /\ \E i \in DOMAIN SpendingPool :
          /\ i >= LastSupplied(SpendingPool)
          /\ transactions' = Append(transactions, SpendingPool[i])
    /\ UNCHANGED << calls, spendingVars, subscriptionVars, patternVars, phase >>

\* analysis := analyzeTransactions(transactions, params.Days)
AnalyzeSpending ==
    /\ phase = "input"
    /\ \E r \in analyzeTransactions(transactions, days) :
          /\ analysis' = r.result
          /\ spendLocals' = r.locals
    /\ phase' = "done"
    /\ UNCHANGED << calls, transactions, days, subscriptionVars, patternVars >>

NextSpending == SupplySpending \/ AnalyzeSpending

SpecSpending == InitSpending /\ [][NextSpending]_vars

-----------------------------------------------------------------------------
(* Transactions supplied to the recurring-payment detector *)

AnnualSoftwareLicense ==
    <<"A","n","n","u","a","l"," ","S","o","f","t","w","a","r","e"," ",
      "L","i","c","e","n","s","e">>

\* Midnight UTC, n days after 2024-01-01.
Day(n) == (19723 + n) * HoursPerDay

\* Not in date order: the detector has to sort each group's dates.
SubscriptionPool ==
    << Tx("send", Present(9990), NetflixSubscription, DateAt(Day(30))),
       Tx("send", Present(9990), NetflixSubscription, DateAt(Day(0))),
       Tx("send", Present(9990), NetflixSubscription, DateAt(Day(60))),
       Tx("send", Present(9990), NetflixSubscription, DateAt(Day(10))),
       Tx("send", Present(9990), NetflixSubscription, DateAt(Day(90))),
       Tx("send", Present(9990), NetflixSubscription, DateAt(Day(70))),
       Tx("send", Present(9990), NetflixSubscription, DateAt(Day(75))),
       Tx("send", Present(9990), NetflixSubscription, DateAt(Day(67))),
       Tx("send", Present(9990), NetflixSubscription, DateAt(Day(59) + 12)),
       Tx("send", Present(9994), NetflixSubscription, DateAt(Day(60))),
       TxTo("send", Present(9990), NetflixSubscription, DateAt(Day(30))),
       Tx("send", Present(10000), NetflixSubscription, DateAt(Day(60))),
       Tx("send", Present(9990), SpotifyPremium, DateAt(Day(60))),
       Tx("send", Present(9990), SpotifyPremium, DateAt(Day(30))),
       Tx("receive", Present(9990), NetflixSubscription, DateAt(Day(60))),
       Tx("send", MissingNumber, NetflixSubscription, DateAt(Day(60))),
       Tx("send", MissingNumber, NetflixSubscription, DateAt(Day(30))),
       Tx("send", Present(9990), NetflixSubscription, MissingDate),
       Tx("send", Present(9990), NetflixSubscription, UnparseableDate),
       Tx("send", Present(1000), NetflixSubscription, DateAt(Day(60))),
       Tx("send", Present(999990), NetflixSubscription, DateAt(Day(60))),
       Tx("send", Present(990), NetflixSubscription, DateAt(Day(60))),
       Tx("send", Present(1000000), NetflixSubscription, DateAt(Day(60))),
       Tx("send", Present(299000), AnnualSoftwareLicense, DateAt(Day(365))),
       Tx("send", Present(299000), AnnualSoftwareLicense, DateAt(Day(0))) >>

\* The handler's defaults for the amounts, with a cutoff that falls on one
\* of the dates supplied.
DefaultParams == [cutoffDate |-> Day(10), minAmount |-> 1000, maxAmount |-> 999990]

\* min_amount given as -1.00, and a cutoff on the earliest date supplied.
WideParams == [cutoffDate |-> Day(0), minAmount |-> -1000, maxAmount |-> 999990]

ParamsPool == { DefaultParams, WideParams }

\* params.TimeframeMonths when none is given: the cutoff is that many
\* months before now.
DefaultTimeframe == 6

MaxPayments == 4

InitSubscriptions ==
    /\ transactions = << >>
    /\ days = 0
    /\ analysis = NotRun
    /\ spendLocals = NoLocals
    /\ subParams \in ParamsPool
    /\ subLocals = NoLocals
    /\ subscriptions = << >>
    /\ monthlyCost = 0
    /\ now = AddDate(subParams.cutoffDate, 0, DefaultTimeframe, 0)
    /\ warnings = << >>
    /\ probe = NoProbe
    /\ probeResult = NotRun
    /\ phase = "input"
    /\ calls = NoCalls

\* The caller appends one more transaction to the list it will hand over.
SupplyPayment ==
    /\ phase = "input"
    /\ Len(transactions) < MaxPayments
    /\ \E i \in DOMAIN SubscriptionPool :
          /\ i >= LastSupplied(SubscriptionPool)
          /\ transactions' = Append(transactions, SubscriptionPool[i])
    /\ UNCHANGED << calls, spendingVars, subscriptionVars, patternVars, phase >>

\* subscriptions := analyzeForSubscriptions(transactions, cutoffDate,
\* params.MinAmount, params.MaxAmount), then the total_monthly_cost and
\* warnings entries of the result.
AnalyzeSubscriptions ==
    /\ phase = "input"
    /\ \E r \in analyzeForSubscriptions(transactions, subParams) :
          /\ subLocals' = r.locals
          /\ subscriptions' = r.result
          /\ monthlyCost' = calculateTotalMonthlyCost(r.result)
          /\ warnings' \in generateWarnings(r.result, now)
    /\ phase' = "done"
    /\ UNCHANGED << calls, transactions, spendingVars, subParams, now, patternVars >>

NextSubscriptions == SupplyPayment \/ AnalyzeSubscriptions

SpecSubscriptions == InitSubscriptions /\ [][NextSubscriptions]_vars

-----------------------------------------------------------------------------
(* Interval lists handed to the interval tests *)

\* Day counts on, inside and just outside every frequency range.  Lists are
\* enumerated in this order, which is not the numeric one.
IntervalPool ==
    << 0, 1, 7, 10, 60, 5, 14, 20, 24, 25, 30, 40, 35, 36, 80, 100, 101,
       169, 170, 190, 191, 349, 350, 380, 381 >>

MaxIntervals == 3

MaxOccurrences == 5

InitPatterns ==
    /\ transactions = << >>
    /\ days = 0
    /\ analysis = NotRun
    /\ spendLocals = NoLocals
    /\ subParams = NoParams
    /\ subLocals = NoLocals
    /\ subscriptions = << >>
    /\ monthlyCost = 0
    /\ now = 0
    /\ warnings = << >>
    /\ probe = NoProbe
    /\ probeResult = NotRun
    /\ phase = "input"
    /\ calls = NoCalls

\* The position in IntervalPool of the last interval supplied (0 for none).
LastInterval ==
    IF probe.intervals = << >> THEN 0
    ELSE CHOOSE j \in DOMAIN IntervalPool :
             IntervalPool[j] = probe.intervals[Len(probe.intervals)]

\* One more day count between two consecutive payments.
ExtendIntervals ==
    /\ phase = "input"
    /\ Len(probe.intervals) < MaxIntervals
    /\ \E i \in DOMAIN IntervalPool :
          /\ i >= LastInterval
          /\ probe' = [probe EXCEPT !.intervals = Append(@, IntervalPool[i])]
    /\ UNCHANGED << calls, transactions, spendingVars, subscriptionVars, probeResult, phase >>

\* The calls analyzeForSubscriptions makes on a group's intervals:
\* isRegularPattern, detectFrequency and calculateConfidence.
Classify ==
    /\ phase = "input"
    /\ \E occurrences \in 1..MaxOccurrences :
          /\ probe' = [probe EXCEPT !.occurrences = occurrences]
          /\ probeResult' =
                [regular |-> isRegularPattern(probe.intervals),
                 frequency |-> detectFrequency(probe.intervals),
                 confidence |-> calculateConfidence(occurrences, probe.intervals)]
    /\ phase' = "done"
    /\ UNCHANGED << calls, transactions, spendingVars, subscriptionVars >>

NextPatterns == ExtendIntervals \/ Classify

SpecPatterns == InitPatterns /\ [][NextPatterns]_vars

-----------------------------------------------------------------------------
(* Payments of one subscription, by billing date *)

\* Day numbers of payments of 15.99 to one merchant, counted from
\* 2024-01-01: the ends of January, February, August and December 2024,
\* and days 5, 7, 14, 20, 30, 60, 90, 180 and about 365 before them.  Not
\* in date order.
BillingDays ==
    << 30, 59, 243, 365, 25, 23, 16, 10, 0, -60, -150, -335, -306, 213, 153,
       63, 335, 360, 305, 275 >>

\* One payment a day: at midnight UTC, or late in the evening for the last
\* of January.
BillingPool ==
    [i \in DOMAIN BillingDays |->
        Tx("send", Present(15990), NetflixSubscription,
           DateAt(Day(BillingDays[i]) + (IF BillingDays[i] = 30 THEN 23 ELSE 0)))]

\* timeframe_months given as 26.
BillingTimeframe == 26

BillingParams == [cutoffDate |-> Day(-400), minAmount |-> 1000, maxAmount |-> 999990]

MaxBilled == 4

InitBilling ==
    /\ transactions = << >>
    /\ days = 0
    /\ analysis = NotRun
    /\ spendLocals = NoLocals
    /\ subParams = BillingParams
    /\ subLocals = NoLocals
    /\ subscriptions = << >>
    /\ monthlyCost = 0
    /\ now = AddDate(BillingParams.cutoffDate, 0, BillingTimeframe, 0)
    /\ warnings = << >>
    /\ probe = NoProbe
    /\ probeResult = NotRun
    /\ phase = "input"
    /\ calls = NoCalls

\* The caller appends one more payment to the list it will hand over.
SupplyBilled ==
    /\ phase = "input"
    /\ Len(transactions) < MaxBilled
    /\ \E i \in DOMAIN BillingPool :
          /\ i >= LastSupplied(BillingPool)
          /\ transactions' = Append(transactions, BillingPool[i])
    /\ UNCHANGED << calls, spendingVars, subscriptionVars, patternVars, phase >>

NextBilling == SupplyBilled \/ AnalyzeSubscriptions

SpecBilling == InitBilling /\ [][NextBilling]_vars

-----------------------------------------------------------------------------
(* Subscriptions handed to generateWarnings *)

HuluNoAds == <<"H","u","l","u"," ","(","N","o"," ","A","d","s",")">>
AdobeCreativeCloud ==
    <<"A","d","o","b","e"," ","C","r","e","a","t","i","v","e"," ","C","l","o","u","d">>
PlanetFitness == <<"P","l","a","n","e","t"," ","F","i","t","n","e","s","s">>
GitHubPro == <<"G","i","t","H","u","b"," ","P","r","o">>
DisneyHuluBundle ==
    <<"D","i","s","n","e","y"," ","H","u","l","u"," ","B","u","n","d","l","e">>
DropboxPlus == <<"D","r","o","p","b","o","x"," ","P","l","u","s">>
AppleMusic == <<"A","p","p","l","e"," ","M","u","s","i","c">>
BiweeklyMealDelivery ==
    <<"B","i","w","e","e","k","l","y"," ","M","e","a","l"," ","D","e","l","i","v","e","r","y">>
ICloudStorage ==
    <<"i","C","l","o","u","d"," ","S","t","o","r","a","g","e"," ","2","0","0","G","B">>

\* The subscription analyzeForSubscriptions reports for payments of `cents`
\* to `merchant` on the given days of 2024.
Found(merchant, cents, dayNumbers) ==
    CHOOSE sub \in Detect([merchant |-> merchant, amount |-> cents],
                          [i \in DOMAIN dayNumbers |-> TimeOf(DateAt(Day(dayNumbers[i])))]) : TRUE

\* Reported subscriptions: merchants of one category, of two, of none, one
\* with two keywords of a category, one merchant at two prices; every
\* frequency factor; totals below, at and above 50.00.
FoundInputs ==
    << [merchant |-> NetflixSubscription, cents |-> 1599, dayNumbers |-> <<0, 30, 60, 90>>],
       [merchant |-> HuluNoAds, cents |-> 1799, dayNumbers |-> <<0, 30>>],
       [merchant |-> SpotifyPremium, cents |-> 1099, dayNumbers |-> <<30, 60, 90>>],
       [merchant |-> AdobeCreativeCloud, cents |-> 5499, dayNumbers |-> <<30, 60, 90>>],
       [merchant |-> PlanetFitness, cents |-> 8085, dayNumbers |-> <<90, 120>>],
       [merchant |-> GitHubPro, cents |-> 700, dayNumbers |-> <<60, 90>>],
       [merchant |-> DisneyHuluBundle, cents |-> 1602, dayNumbers |-> <<0, 30, 60>>],
       [merchant |-> AnnualSoftwareLicense, cents |-> 29900, dayNumbers |-> <<-365, 0>>],
       [merchant |-> DropboxPlus, cents |-> 1199, dayNumbers |-> <<70, 90>>],
       [merchant |-> NetflixSubscription, cents |-> 999, dayNumbers |-> <<0, 30>>],
       [merchant |-> AppleMusic, cents |-> 1099, dayNumbers |-> <<30, 60>>],
       [merchant |-> BiweeklyMealDelivery, cents |-> 8999, dayNumbers |-> <<62, 76, 90>>],
       [merchant |-> ICloudStorage, cents |-> 299, dayNumbers |-> <<29, 60, 90>>] >>

\* The subscription reported for each of them.
FoundPool ==
    [i \in DOMAIN FoundInputs |->
        Found(FoundInputs[i].merchant, FoundInputs[i].cents, FoundInputs[i].dayNumbers)]

\* Times of the call: 90 days after the payments of day 30, and later.
NowPool == { Day(120), Day(200) }

MaxFound == 3

InitWarnings ==
    /\ transactions = << >>
    /\ days = 0
    /\ analysis = NotRun
    /\ spendLocals = NoLocals
    /\ subParams = NoParams
    /\ subLocals = NoLocals
    /\ subscriptions = << >>
    /\ monthlyCost = 0
    /\ now \in NowPool
    /\ warnings = << >>
    /\ probe = NoProbe
    /\ probeResult = NotRun
    /\ phase = "input"
    /\ calls = NoCalls

\* The position in FoundPool of the last subscription reported (0 for
\* none): one list per set of subscriptions.
LastFound ==
    IF subscriptions = << >> THEN 0
    ELSE CHOOSE i \in DOMAIN FoundPool : FoundPool[i] = subscriptions[Len(subscriptions)]

\* subscriptions = append(subscriptions, subscription)
FindSubscription ==
    /\ phase = "input"
    /\ Len(subscriptions) < MaxFound
    /\ \E i \in DOMAIN FoundPool :
          /\ i > LastFound
          /\ subscriptions' = Append(subscriptions, FoundPool[i])
    /\ UNCHANGED << calls, transactions, spendingVars, subParams, subLocals, monthlyCost,
                    now, warnings, patternVars, phase >>

\* The total_monthly_cost and warnings entries of the result.
Warn ==
    /\ phase = "input"
    /\ monthlyCost' = calculateTotalMonthlyCost(subscriptions)
    /\ warnings' \in generateWarnings(subscriptions, now)
    /\ phase' = "done"
    /\ UNCHANGED << calls, transactions, spendingVars, subParams, subLocals, subscriptions,
                    now, patternVars >>

NextWarnings == FindSubscription \/ Warn

SpecWarnings == InitWarnings /\ [][NextWarnings]_vars

-----------------------------------------------------------------------------
(* Counts and periods handed to calculateVelocity *)

MaxPeriodDays == 30

MaxSpendCount == 31

InitVelocity ==
    /\ transactions = << >>
    /\ days = 0
    /\ analysis = NotRun
    /\ spendLocals = NoLocals
    /\ subParams = NoParams
    /\ subLocals = NoLocals
    /\ subscriptions = << >>
    /\ monthlyCost = 0
    /\ now = 0
    /\ warnings = << >>
    /\ \E d \in 1..MaxPeriodDays : probe = [transactionCount |-> 0, days |-> d]
    /\ probeResult = NotRun
    /\ phase = "input"
    /\ calls = NoCalls

\* One more outgoing transaction counted in the period.
CountSpend ==
    /\ phase = "input"
    /\ probe.transactionCount < MaxSpendCount
    /\ probe' = [probe EXCEPT !.transactionCount = @ + 1]
    /\ UNCHANGED << calls, transactions, spendingVars, subscriptionVars, probeResult, phase >>

\* "velocity": calculateVelocity(spendCount, days)
Velocity ==
    /\ phase = "input"
    /\ probeResult' = calculateVelocity(probe.transactionCount, probe.days)
    /\ phase' = "done"
    /\ UNCHANGED << calls, transactions, spendingVars, subscriptionVars, probe >>

NextVelocity == CountSpend \/ Velocity

SpecVelocity == InitVelocity /\ [][NextVelocity]_vars

-----------------------------------------------------------------------------
(* Descriptions handed to categorizeTransaction *)

\* Words a description is made of: some hold a keyword in another case or
\* inside a longer word, some hold none.
WordPool ==
    << <<"W","h","o","l","e">>,
       <<"F","o","o","d","s">>,
       <<"S","t","o","r","e">>,
       <<"U","B","E","R">>,
       <<"V","e","g","a","s">>,
       <<"N","e","t","f","l","i","x">>,
       <<"B","i","l","l">>,
       <<"R","e","n","t">>,
       <<"C","O","F","F","E","E">>,
       <<"P","a","y","m","e","n","t">> >>

MaxWords == 3

InitCategorize ==
    /\ transactions = << >>
    /\ days = 0
    /\ analysis = NotRun
    /\ spendLocals = NoLocals
    /\ subParams = NoParams
    /\ subLocals = NoLocals
    /\ subscriptions = << >>
    /\ monthlyCost = 0
    /\ now = 0
    /\ warnings = << >>
    /\ probe = [description |-> << >>, words |-> 0]
    /\ probeResult = NotRun
    /\ phase = "input"
    /\ calls = NoCalls

\* One more word at the end of the description, after a space.
WriteWord ==
    /\ phase = "input"
    /\ probe.words < MaxWords
    /\ \E i \in DOMAIN WordPool :
          probe' = [description |->
                        IF probe.words = 0 THEN WordPool[i]
                        ELSE probe.description \o <<" ">> \o WordPool[i],
                    words |-> probe.words + 1]
    /\ UNCHANGED << calls, transactions, spendingVars, subscriptionVars, probeResult, phase >>

\* category := categorizeTransaction(description)
Categorize ==
    /\ phase = "input"
    /\ probeResult' = categorizeTransaction(probe.description)
    /\ phase' = "done"
    /\ UNCHANGED << calls, transactions, spendingVars, subscriptionVars, probe >>

NextCategorize == WriteWord \/ Categorize

SpecCategorize == InitCategorize /\ [][NextCategorize]_vars

-----------------------------------------------------------------------------
(* The detector on a list and on the same list in another order *)

\* Payments of one subscription, two of them at the same instant written
\* with different offsets (2024-02-29T23:00:00Z and
\* 2024-03-01T01:00:00+02:00); payments 20 days apart; an amount that
\* prints as another one's; a transaction the filters drop.  A payment can
\* be supplied twice.
ReorderPool ==
    << Tx("send", Present(15990), NetflixSubscription, DateAt(Day(0))),
       Tx("send", Present(15990), NetflixSubscription, DateAt(Day(30))),
       Tx("send", Present(15990), NetflixSubscription, DateAt(Day(60) - 1)),
       Tx("send", Present(15990), NetflixSubscription, DateIn(Day(60) - 1, 2)),
       Tx("send", Present(9990), SpotifyPremium, DateAt(Day(20))),
       Tx("send", Present(9990), SpotifyPremium, DateAt(Day(40))),
       Tx("send", Present(15994), NetflixSubscription, DateAt(Day(90))),
       Tx("receive", Present(15990), NetflixSubscription, DateAt(Day(90))) >>

ReorderParams == [cutoffDate |-> Day(-90), minAmount |-> 1000, maxAmount |-> 999990]

MaxReordered == 4

InitReorder ==
    /\ transactions = << >>
    /\ days = 0
    /\ analysis = NotRun
    /\ spendLocals = NoLocals
    /\ subParams = ReorderParams
    /\ subLocals = NoLocals
    /\ subscriptions = << >>
    /\ monthlyCost = 0
    /\ now = AddDate(ReorderParams.cutoffDate, 0, DefaultTimeframe, 0)
    /\ warnings = << >>
    /\ probe = NoProbe
    /\ probeResult = NotRun
    /\ phase = "input"
    /\ calls = NoCalls

\* The caller appends one more transaction to the list it will hand over.
SupplyReordered ==
    /\ phase = "input"
    /\ Len(transactions) < MaxReordered
    /\ \E i \in DOMAIN ReorderPool :
          /\ i >= LastSupplied(ReorderPool)
          /\ transactions' = Append(transactions, ReorderPool[i])
    /\ UNCHANGED << calls, spendingVars, subscriptionVars, patternVars, phase >>

\* The same transactions in the order `order` lists their positions in.
Reordered(txs, order) == [i \in DOMAIN txs |-> txs[order[i]]]

\* analyzeForSubscriptions and calculateTotalMonthlyCost are called once
\* more, with the same transactions in another order.
AnalyzeReordered ==
    /\ phase = "done"
    /\ \E order \in Orders(DOMAIN transactions) :
          \E r \in analyzeForSubscriptions(Reordered(transactions, order), subParams) :
              /\ probe' = [transactions |-> Reordered(transactions, order)]
              /\ probeResult' = [subscriptions |-> r.result,
                                 monthlyCost |-> calculateTotalMonthlyCost(r.result)]
    /\ phase' = "reordered"
    /\ UNCHANGED << calls, transactions, spendingVars, subscriptionVars >>

NextReorder == SupplyReordered \/ AnalyzeSubscriptions \/ AnalyzeReordered

SpecReorder == InitReorder /\ [][NextReorder]_vars

-----------------------------------------------------------------------------
(* The tool handlers: analyze_spending and analyze_subscriptions *)

\* toolParams.Input: whether json.Unmarshal accepts it, and the keys it
\* holds with their values (amounts in mils).
Json(fields) == [parses |-> TRUE, fields |-> fields]
NotJson == [parses |-> FALSE, fields |-> << >>]
NoFields == [k \in {} |-> 0]

\* A struct field after json.Unmarshal: the key's value, else the zero
\* value the struct started with.
Field(input, key, zero) ==
    IF key \in DOMAIN input.fields THEN input.fields[key] ELSE zero

DefaultDays == 30
DefaultMinAmount == 1000
DefaultMaxAmount == 999990

\* params of analyze_spending after the Unmarshal and the default for days.
spendingParams(input) ==
    IF ~input.parses THEN [days |-> DefaultDays, useMock |-> TRUE]
    ELSE [days |-> IF Field(input, "days", 0) = 0 THEN DefaultDays
                   ELSE Field(input, "days", 0),
          useMock |-> Field(input, "use_mock", FALSE)]

\* params of analyze_subscriptions after the Unmarshal and the defaults.
subscriptionParams(input) ==
    IF ~input.parses
    THEN [timeframeMonths |-> DefaultTimeframe, minAmount |-> DefaultMinAmount,
          maxAmount |-> DefaultMaxAmount, useMock |-> TRUE]
    ELSE LET months == Field(input, "timeframe_months", 0)
             minAmount == Field(input, "min_amount", 0)
             maxAmount == Field(input, "max_amount", 0)
         IN  [timeframeMonths |-> IF months = 0 THEN DefaultTimeframe ELSE months,
              minAmount |-> IF minAmount = 0 THEN DefaultMinAmount ELSE minAmount,
              maxAmount |-> IF maxAmount = 0 THEN DefaultMaxAmount ELSE maxAmount,
              useMock |-> Field(input, "use_mock", FALSE)]

\* cutoffDate := now.AddDate(0, -params.TimeframeMonths, 0)
CutoffDate(params) == AddDate(now, 0, -params.timeframeMonths, 0)

\* The arguments analyzeForSubscriptions is called with.
DetectorParams(params) ==
    [cutoffDate |-> CutoffDate(params), minAmount |-> params.minAmount,
     maxAmount |-> params.maxAmount]

\* The handler's result map on success.
SpendingData(params, txs, r) ==
    [success |-> TRUE,
     goError |-> "nil",
     period_days |-> params.days,
     total_transactions |-> Len(txs),
     analysis |-> r,
     is_mock |-> params.useMock,
     generated_at |-> now]

\* What analyze_spending returns for a list: the results it can return.
SpendingResults(params, txs) ==
    { SpendingData(params, txs, r.result) : r \in analyzeTransactions(txs, params.days) }

SubscriptionData(params, txs, subs, warned) ==
    [success |-> TRUE,
     goError |-> "nil",
     analysis_period |-> params.timeframeMonths,
     total_transactions_scanned |-> Len(txs),
     subscriptions_found |-> Len(subs),
     subscriptions |-> subs,
     total_monthly_cost |-> calculateTotalMonthlyCost(subs),
     warnings |-> warned,
     is_mock |-> params.useMock,
     generated_at |-> now]

\* What analyze_subscriptions returns for a list: the results it can return.
SubscriptionResults(params, txs) ==
    UNION { { SubscriptionData(params, txs, r.result, warned)
              : warned \in generateWarnings(r.result, now) }
            : r \in analyzeForSubscriptions(txs, DetectorParams(params)) }

\* The ToolResult of the two early returns; goError is the error value
\* returned beside it.
FetchError ==
    [success |-> FALSE, error |-> "failed to fetch transactions", goError |-> "nil"]
FetchFailed ==
    [success |-> FALSE, error |-> "transaction fetch failed", goError |-> "nil"]

\* txResponse.Data: whether it decodes to a map with a "transactions"
\* array, and the array's entries (a transaction map, or something else).
Payload(entries) == [decodes |-> TRUE, entries |-> entries]
Undecodable == [decodes |-> FALSE, entries |-> << >>]
MapEntry(tx) == [isMap |-> TRUE, tx |-> tx]
OtherEntry == [isMap |-> FALSE, tx |-> << >>]

\* The transactions appended from the payload's entries from the i-th on.
RECURSIVE DecodeFrom(_, _, _)
DecodeFrom(entries, i, txs) ==
    IF i > Len(entries) THEN txs
    ELSE DecodeFrom(entries, i + 1,
                    IF entries[i].isMap THEN Append(txs, entries[i].tx) ELSE txs)

\* The list the handler has after the fetch: each entry that is a map.
Decode(payload) ==
    IF payload.decodes THEN DecodeFrom(payload.entries, 1, << >>) ELSE << >>

\* txResponse and err after liminalExecutor.Execute: not called yet, an
\* error, a response with Success = false, a response with Success = true
\* and its Data.
NoResponse == [called |-> FALSE, err |-> FALSE, success |-> FALSE, data |-> Undecodable]
ExecuteError == [called |-> TRUE, err |-> TRUE, success |-> FALSE, data |-> Undecodable]
Unsuccessful == [called |-> TRUE, err |-> FALSE, success |-> FALSE, data |-> Undecodable]
Successful(payload) == [called |-> TRUE, err |-> FALSE, success |-> TRUE, data |-> payload]

\* The two invocations that run side by side.
Calls == {1, 2}

Idle ==
    [pc |-> "idle", tool |-> "", input |-> NotJson, params |-> NoParams,
     fetches |-> 0, response |-> NoResponse, transactions |-> << >>,
     result |-> NotRun]

\* Inputs of analyze_spending: no JSON, no key, days alone, days with
\* use_mock, days given as 0, use_mock alone.
SpendingInputs ==
    { NotJson,
      Json(NoFields),
      Json("days" :> 7),
      Json(("days" :> 7) @@ ("use_mock" :> TRUE)),
      Json(("days" :> 0) @@ ("use_mock" :> TRUE)),
      Json("use_mock" :> FALSE) }

\* Inputs of analyze_subscriptions: no JSON, no key, every key, min_amount
\* given as 0, use_mock alone.
SubscriptionInputs ==
    { NotJson,
      Json(NoFields),
      Json(("timeframe_months" :> 3) @@ ("min_amount" :> 5000)
           @@ ("max_amount" :> 50000) @@ ("use_mock" :> TRUE)),
      Json(("min_amount" :> 0) @@ ("use_mock" :> FALSE)),
      Json("use_mock" :> TRUE) }

\* Lists generateMockTransactionsForAnalysis can build; two or three
\* transactions stand for its 30 to 40.
MockSpendingLists ==
    { << SpendingPool[1], SpendingPool[7] >>,
      << SpendingPool[3], SpendingPool[4], SpendingPool[2] >> }

\* The recurring payments of one template of
\* generateMockSubscriptionTransactions, one every 30 days back from now,
\* and a one-time purchase; the amounts vary by the cent or not at all.
MockSubscriptionList(months, step) ==
    [j \in 1..months |->
        Tx("send", Present(15990 + step * (j - 1)), NetflixSubscription,
           DateAt(AddDate(now, 0, 0, -30 * (j - 1))))]
    \o << Tx("send", Present(45000), StarbucksCoffee, DateAt(AddDate(now, 0, 0, -10))) >>

MockSubscriptionLists(months) ==
    { MockSubscriptionList(months, 0), MockSubscriptionList(months, 10) }

\* Payloads get_transactions can answer with.
SpendingPayloads ==
    { Undecodable,
      Payload(<< >>),
      Payload(<< MapEntry(SpendingPool[5]), OtherEntry, MapEntry(SpendingPool[7]) >>) }

SubscriptionPayloads ==
    { Undecodable,
      Payload(<< >>),
      Payload(<< MapEntry(SubscriptionPool[1]), MapEntry(SubscriptionPool[3]),
                 OtherEntry, MapEntry(SubscriptionPool[5]) >>) }

InitTools ==
    /\ transactions = << >>
    /\ days = 0
    /\ analysis = NotRun
    /\ spendLocals = NoLocals
    /\ subParams = NoParams
    /\ subLocals = NoLocals
    /\ subscriptions = << >>
    /\ monthlyCost = 0
    /\ now = Day(192)
    /\ warnings = << >>
    /\ probe = NoProbe
    /\ probeResult = NotRun
    /\ phase = "input"
    /\ calls = [c \in Calls |-> Idle]

analysisVars ==
    << transactions, spendingVars, subscriptionVars, patternVars, phase >>

\* analyze_spending is invoked: the Unmarshal of the input and the default.
InvokeSpending(c) ==
    /\ calls[c].pc = "idle"
    /\ \E input \in SpendingInputs :
          calls' = [calls EXCEPT ![c] =
                       [@ EXCEPT !.pc = "data", !.tool = "analyze_spending",
                                 !.input = input, !.params = spendingParams(input)]]
    /\ UNCHANGED analysisVars

\* analyze_subscriptions is invoked: the Unmarshal and the defaults.
InvokeSubscriptions(c) ==
    /\ calls[c].pc = "idle"
    /\ \E input \in SubscriptionInputs :
          calls' = [calls EXCEPT ![c] =
                       [@ EXCEPT !.pc = "data", !.tool = "analyze_subscriptions",
                                 !.input = input, !.params = subscriptionParams(input)]]
    /\ UNCHANGED analysisVars

\* params.UseMock: the transactions are generated.
GenerateMock(c) ==
    /\ calls[c].pc = "data"
    /\ calls[c].params.useMock
    /\ \E txs \in IF calls[c].tool = "analyze_spending" THEN MockSpendingLists
                   ELSE MockSubscriptionLists(calls[c].params.timeframeMonths) :
          calls' = [calls EXCEPT ![c] = [@ EXCEPT !.pc = "analyse", !.transactions = txs]]
    /\ UNCHANGED analysisVars

\* liminalExecutor.Execute(get_transactions) returns an error.
FetchReturnsError(c) ==
    /\ calls[c].pc = "data"
    /\ ~calls[c].params.useMock
    /\ calls' = [calls EXCEPT ![c] =
                    [@ EXCEPT !.pc = "returned", !.fetches = @ + 1,
                              !.response = ExecuteError, !.result = FetchError]]
    /\ UNCHANGED analysisVars

\* The response with Success = false taken as one with no transactions.
FetchUnsuccessfulAnalysed(c) ==
    /\ calls[c].pc = "data"
    /\ ~calls[c].params.useMock
    /\ calls' = [calls EXCEPT ![c] =
                    [@ EXCEPT !.pc = "analyse", !.fetches = @ + 1,
                              !.response = Unsuccessful]]
    /\ UNCHANGED analysisVars

\* The response has Success = false.
FetchUnsuccessful(c) ==
    /\ calls[c].pc = "data"
    /\ ~calls[c].params.useMock
    /\ calls' = [calls EXCEPT ![c] =
                    [@ EXCEPT !.pc = "returned", !.fetches = @ + 1,
                              !.response = Unsuccessful, !.result = FetchFailed]]
    /\ UNCHANGED analysisVars

\* The response has Success = true: its data is decoded into transactions.
FetchSucceeds(c) ==
    /\ calls[c].pc = "data"
    /\ ~calls[c].params.useMock
    /\ \E payload \in IF calls[c].tool = "analyze_spending" THEN SpendingPayloads
                       ELSE SubscriptionPayloads :
          calls' = [calls EXCEPT ![c] =
                       [@ EXCEPT !.pc = "analyse", !.fetches = @ + 1,
                                 !.response = Successful(payload),
                                 !.transactions = Decode(payload)]]
    /\ UNCHANGED analysisVars

\* Each invocation's own variable instead of one shared by all.
SharedTransactions(c) == calls[1].transactions

\* var transactions []map[string]interface{}: a local of the invocation.
OwnTransactions(c) == calls[c].transactions

\* analyzeTransactions and the result returned.
ReturnSpending(c) ==
    /\ calls[c].pc = "analyse"
    /\ calls[c].tool = "analyze_spending"
    /\ \E result \in SpendingResults(calls[c].params, OwnTransactions(c)) :
          calls' = [calls EXCEPT ![c] = [@ EXCEPT !.pc = "returned", !.result = result]]
    /\ UNCHANGED analysisVars

\* analyzeForSubscriptions, calculateTotalMonthlyCost, generateWarnings and
\* the result returned.
ReturnSubscriptions(c) ==
    /\ calls[c].pc = "analyse"
    /\ calls[c].tool = "analyze_subscriptions"
    /\ \E result \in SubscriptionResults(calls[c].params, OwnTransactions(c)) :
          calls' = [calls EXCEPT ![c] = [@ EXCEPT !.pc = "returned", !.result = result]]
    /\ UNCHANGED analysisVars

NextTools ==
    \E c \in Calls :
        \/ InvokeSpending(c)
        \/ InvokeSubscriptions(c)
        \/ GenerateMock(c)
        \/ FetchReturnsError(c)
        \/ FetchUnsuccessful(c)
        \/ FetchSucceeds(c)
        \/ ReturnSpending(c)
        \/ ReturnSubscriptions(c)

SpecTools == InitTools /\ [][NextTools]_vars

-----------------------------------------------------------------------------
(* Properties of the spending summary *)

Analysed == phase = "done" /\ Len(transactions) > 0

Abs(x) == IF x < 0 THEN -x ELSE x

RECURSIVE SumOver(_, _)
SumOver(f, S) ==
    IF S = {} THEN 0
    ELSE LET x == CHOOSE x \in S : TRUE IN f[x] + SumOver(f, S \ {x})

\* The amounts of the transactions of one type, a missing amount counting 0.
AmountsOfType(type) ==
    [i \in DOMAIN transactions |->
        IF transactions[i].type = type /\ transactions[i].amount.ok
        THEN transactions[i].amount.v ELSE 0]

TotalOfType(type) == SumOver(AmountsOfType(type), DOMAIN transactions)

\* C1: on a non-empty list the net cash flow computed is the sum of the
\* 'receive' amounts minus the sum of the 'send' amounts, so that
\* totalSpent - totalReceived = -netCashFlow, and the net_cash_flow reported
\* is that value printed with two decimals.
C1_NetCashFlow ==
    Analysed =>
        /\ spendLocals.totalSpent = TotalOfType("send")
        /\ spendLocals.totalReceived = TotalOfType("receive")
        /\ spendLocals.netCashFlow = TotalOfType("receive") - TotalOfType("send")
        /\ spendLocals.totalSpent - spendLocals.totalReceived = -spendLocals.netCashFlow
        /\ analysis.net_cash_flow = Sprintf2(TotalOfType("receive") - TotalOfType("send"))

\* Both kinds of transaction are in the list and the flow is negative.
C1_Witness ==
    /\ Analysed
    /\ spendLocals.totalSpent > 0
    /\ spendLocals.totalReceived > 0
    /\ spendLocals.netCashFlow < 0

\* The percentages printed in top_categories, in tenths of a percent, summed.
ListedPercentages ==
    SumOver([i \in DOMAIN analysis.top_categories |-> analysis.top_categories[i].percentage],
            DOMAIN analysis.top_categories)

\* Each printed percentage is within 0.05 of the exact one, so a sum of n of
\* them is within n * 0.05 of the exact sum.
WithinRounding(tenths, target, n) == 2 * Abs(tenths - target) <= n

\* C9 as stated: whenever totalSpent > 0 the percentages listed in
\* top_categories sum to 100% within rounding, for every list.
C9_ListedSumTo100 ==
    (Analysed /\ spendLocals.totalSpent > 0) =>
        WithinRounding(ListedPercentages, 1000, Len(analysis.top_categories))

\* The share of the categories the top-5 cut leaves out, in tenths of a
\* percent, as an exact fraction of totalSpent.
LeftOutAmount ==
    SumOver([i \in DOMAIN spendLocals.categories |->
                IF i > TopLimit THEN spendLocals.categories[i].amount ELSE 0],
            DOMAIN spendLocals.categories)

\* C9 amended: whenever totalSpent > 0, the percentages listed sum (within
\* rounding) to 100% less the share of the categories left out by the top-5
\* cut; hence to 100% whenever the outgoing transactions fall into at most
\* five categories.
C9_ListedSumAmended ==
    (Analysed /\ spendLocals.totalSpent > 0) =>
        /\ 2 * Abs(ListedPercentages * spendLocals.totalSpent
                   - 1000 * (spendLocals.totalSpent - LeftOutAmount))
              <= Len(analysis.top_categories) * spendLocals.totalSpent
        /\ Len(spendLocals.categories) <= TopLimit =>
              WithinRounding(ListedPercentages, 1000, Len(analysis.top_categories))

\* Five categories with spending, all of them listed.
C9_Witness ==
    /\ Analysed
    /\ spendLocals.totalSpent > 0
    /\ Len(spendLocals.categories) = 5
    /\ Len(analysis.top_categories) = 5
    /\ \A i \in 1..5 : analysis.top_categories[i].percentage > 0

ListedNames == { analysis.top_categories[i].category : i \in DOMAIN analysis.top_categories }

NoLargerLeftOut ==
    \A n \in DOMAIN spendLocals.categorySpending \ ListedNames :
        \A m \in ListedNames :
            spendLocals.categorySpending[n] <= spendLocals.categorySpending[m]

\* C10 as stated: top_categories has at most 5 entries, each entry's amount
\* is greater than the amount of the entry after it, and no category left
\* out has a larger amount than one listed.
C10_StrictlyDescending ==
    Analysed =>
        /\ Len(analysis.top_categories) <= 5
        /\ \A i \in 1..(Len(analysis.top_categories) - 1) :
              analysis.top_categories[i].amount > analysis.top_categories[i + 1].amount
        /\ NoLargerLeftOut

\* C10 amended: top_categories has at most 5 entries, each entry's amount is
\* greater than or equal to the amount of the entry after it (categories
\* with equal amounts come in either order), the entries are distinct
\* categories, and no category left out has a larger amount than one listed.
C10_Descending ==
    Analysed =>
        /\ Len(analysis.top_categories) <= 5
        /\ \A i \in 1..(Len(analysis.top_categories) - 1) :
              /\ analysis.top_categories[i].amount >= analysis.top_categories[i + 1].amount
              /\ spendLocals.categorySpending[analysis.top_categories[i].category]
                    >= spendLocals.categorySpending[analysis.top_categories[i + 1].category]
        /\ Cardinality(ListedNames) = Len(analysis.top_categories)
        /\ NoLargerLeftOut

\* Six categories with different amounts among them: one is left out.
C10_Witness ==
    /\ Analysed
    /\ Len(spendLocals.categories) = 6
    /\ Len(analysis.top_categories) = 5
    /\ analysis.top_categories[1].amount > analysis.top_categories[5].amount

\* The fixed list of categories.
Categories ==
    { "Food & Dining", "Transportation", "Shopping", "Entertainment",
      "Bills & Utilities", "Other" }

\* The transactions of one type.
OfType(type) == { i \in DOMAIN transactions : transactions[i].type = type }

\* The 'send' transactions whose description falls in a category.
SendsIn(category) ==
    { i \in OfType("send") : CategoryTable[transactions[i].description] = category }

\* C19: total spent, spend count and the per-category totals and counts
\* are those of the 'send' transactions alone, total received and receive
\* count those of the 'receive' transactions alone, whatever other types
\* the list holds; so, over all categories, the amounts sum to totalSpent
\* and the counts to spend_count, and spend_count + receive_count is at
\* most the number of transactions.
C19_OnlySendAndReceiveCount ==
    Analysed =>
        /\ spendLocals.spendCount = Cardinality(OfType("send"))
        /\ spendLocals.receiveCount = Cardinality(OfType("receive"))
        /\ spendLocals.totalSpent =
              SumOver(AmountsOfType("send"), OfType("send"))
        /\ spendLocals.totalReceived =
              SumOver(AmountsOfType("receive"), OfType("receive"))
        /\ DOMAIN spendLocals.categorySpending =
              { c \in Categories : SendsIn(c) # {} }
        /\ DOMAIN spendLocals.categoryCount = DOMAIN spendLocals.categorySpending
        /\ \A c \in DOMAIN spendLocals.categorySpending :
              /\ spendLocals.categorySpending[c] =
                    SumOver(AmountsOfType("send"), SendsIn(c))
              /\ spendLocals.categoryCount[c] = Cardinality(SendsIn(c))
        /\ SumOver(spendLocals.categorySpending, DOMAIN spendLocals.categorySpending)
              = spendLocals.totalSpent
        /\ SumOver(spendLocals.categoryCount, DOMAIN spendLocals.categoryCount)
              = spendLocals.spendCount
        /\ analysis.spend_count = spendLocals.spendCount
        /\ analysis.receive_count = spendLocals.receiveCount
        /\ analysis.spend_count + analysis.receive_count <= Len(transactions)

\* A list with a 'send', a 'receive', a 'deposit' and a transaction without
\* a type: two of the four are counted.
C19_Witness ==
    /\ Analysed
    /\ Len(transactions) = 4
    /\ OfType("send") # {}
    /\ OfType("receive") # {}
    /\ OfType("deposit") # {}
    /\ OfType("") # {}
    /\ analysis.spend_count + analysis.receive_count = 2

-----------------------------------------------------------------------------
(* Properties of the recurring-payment detector *)

Detected == phase = "done" /\ subLocals # NoLocals

Groups == subLocals.paymentGroups

KeyOfSubscription(sub) == [merchant |-> sub.merchant, amount |-> sub.amount]

EmittedKeys == { KeyOfSubscription(subscriptions[i]) : i \in DOMAIN subscriptions }

\* The day counts between the consecutive dates of a group, in date order.
GroupIntervals(key) == Intervals(SortDates(Groups[key]))

\* At least 70% of the intervals lie within 20% of their mean:
\* |interval - sum/n| <= 0.2 * sum/n, multiplied through by 5 * n.
MostlyNearMean(intervals) ==
    LET n == Len(intervals)
        sum == SeqSum(intervals)
        near == { i \in DOMAIN intervals : 5 * Abs(n * intervals[i] - sum) <= sum }
    IN  n > 0 /\ 10 * Cardinality(near) >= 7 * n

AmountRead(tx) == IF tx.amount.ok THEN tx.amount.v ELSE 0

\* The three filters of the detector.
PassesFilters(tx) ==
    /\ tx.type = "send"
    /\ AmountRead(tx) >= subParams.minAmount
    /\ AmountRead(tx) <= subParams.maxAmount
    /\ tx.date.ok
    /\ tx.date.parses
    /\ tx.date.t >= subParams.cutoffDate

Passing == { i \in DOMAIN transactions : PassesFilters(transactions[i]) }

\* A non-negative amount in mils rounded to whole cents.
ToCents(mils) == (mils + 5) \div 10

SameGroup(i, j) ==
    /\ MerchantOf(transactions[i]) = MerchantOf(transactions[j])
    /\ ToCents(AmountRead(transactions[i])) = ToCents(AmountRead(transactions[j]))

\* C4: two transactions that pass the filters are in the same group if and
\* only if they have the same merchant and the same amount rounded to 2
\* decimals: the group of each passing transaction holds exactly as many
\* dates as there are passing transactions with its merchant and rounded
\* amount, and there is one group per such pair.
C4_GroupedByMerchantAndCents ==
    Detected =>
        /\ \A i \in Passing :
              LET key == [merchant |-> MerchantOf(transactions[i]),
                          amount |-> ToCents(AmountRead(transactions[i]))]
              IN  /\ key \in DOMAIN Groups
                  /\ Len(Groups[key]) = Cardinality({ j \in Passing : SameGroup(i, j) })
        /\ \A key \in DOMAIN Groups :
              \E i \in Passing :
                  key = [merchant |-> MerchantOf(transactions[i]),
                         amount |-> ToCents(AmountRead(transactions[i]))]

\* 9.99 and 9.994 of one merchant share a group of two; 10.00 of the same
\* merchant and 9.99 of another merchant are in groups of their own.
C4_Witness ==
    /\ Detected
    /\ \E i, j, k, l \in Passing :
          /\ AmountRead(transactions[i]) = 9990
          /\ AmountRead(transactions[j]) = 9994
          /\ AmountRead(transactions[k]) = 10000
          /\ AmountRead(transactions[l]) = 9990
          /\ MerchantOf(transactions[i]) = NetflixSubscription
          /\ MerchantOf(transactions[j]) = NetflixSubscription
          /\ MerchantOf(transactions[k]) = NetflixSubscription
          /\ MerchantOf(transactions[l]) = SpotifyPremium
    /\ Len(Groups[[merchant |-> NetflixSubscription, amount |-> 999]]) = 2
    /\ Len(Groups[[merchant |-> NetflixSubscription, amount |-> 1000]]) = 1
    /\ Len(Groups[[merchant |-> SpotifyPremium, amount |-> 999]]) = 1

GroupSizes == [key \in DOMAIN Groups |-> Len(Groups[key])]

\* C5: only 'send' transactions with minAmount <= amount <= maxAmount and a
\* date that parses and is not before the cutoff contribute an occurrence:
\* the groups hold one date per such transaction and nothing else.
C5_OnlyFilteredContribute ==
    Detected =>
        /\ SumOver(GroupSizes, DOMAIN Groups) = Cardinality(Passing)
        /\ \A key \in DOMAIN Groups :
              \A n \in DOMAIN Groups[key] :
                  \E i \in Passing :
                      /\ transactions[i].date.t = Groups[key][n].t
                      /\ MerchantOf(transactions[i]) = key.merchant
        /\ \A i \in DOMAIN transactions :
              transactions[i].type = "receive" => i \notin Passing

\* A payment dated exactly at the cutoff, one of exactly minAmount and one
\* of exactly maxAmount each contributed; a 'receive' did not.
C5_Witness ==
    /\ Detected
    /\ \E i, j, k \in Passing :
          /\ transactions[i].date.t = subParams.cutoffDate
          /\ AmountRead(transactions[j]) = subParams.minAmount
          /\ AmountRead(transactions[k]) = subParams.maxAmount
    /\ \E i \in DOMAIN transactions : transactions[i].type = "receive"
    /\ SumOver(GroupSizes, DOMAIN Groups) = 3

\* A transaction whose amount and date are both present and parseable.
WellFormed(tx) == tx.amount.ok /\ tx.date.ok /\ tx.date.parses

\* The subscriptions analyzeForSubscriptions returns for a list, as a set.
SubscriptionsOf(txs) ==
    UNION { { r.result[i] : i \in DOMAIN r.result }
            : r \in analyzeForSubscriptions(txs, subParams) }

\* C6: a transaction whose amount is missing or not a number, or whose date
\* is missing or unparseable, never participates: the groups and the
\* subscriptions are those of the list without such transactions.
C6_MalformedNeverParticipate ==
    Detected =>
        LET clean == SelectSeq(transactions, WellFormed)
        IN  /\ Groups = PaymentGroups(clean, subParams)
            /\ { subscriptions[i] : i \in DOMAIN subscriptions } = SubscriptionsOf(clean)

\* The monthly factor of a frequency as a number of 12000ths:
\* x1, /3, /6, /12, x2.167, x4.333, and nothing for any other frequency.
FactorIn12000ths(frequency) ==
    CASE frequency = "monthly" -> 12000
      [] frequency = "quarterly" -> 4000
      [] frequency = "semi-annual" -> 2000
      [] frequency = "annual" -> 1000
      [] frequency = "biweekly" -> 26004
      [] frequency = "weekly" -> 51996
      [] OTHER -> 0

NormalisedTotal ==
    SumOver([i \in DOMAIN subscriptions |->
                subscriptions[i].amount * FactorIn12000ths(subscriptions[i].frequency)],
            DOMAIN subscriptions)

\* C8: the total monthly cost is the sum of the amounts normalised by
\* frequency, rounded to 2 decimals (a half rounding up); one annual
\* subscription of 299.00 gives 24.92 and no subscription gives 0.
C8_TotalMonthlyCost ==
    Detected =>
        /\ monthlyCost = (2 * NormalisedTotal + 12000) \div 24000
        /\ subscriptions = << >> => monthlyCost = 0
        /\ (/\ Len(subscriptions) = 1
            /\ subscriptions[1].amount = 29900
            /\ subscriptions[1].frequency = "annual") => monthlyCost = 2492

\* One annual subscription of 299.00 was found: 24.92 a month.
C8_Witness ==
    /\ Detected
    /\ Len(subscriptions) = 1
    /\ subscriptions[1].amount = 29900
    /\ subscriptions[1].frequency = "annual"
    /\ monthlyCost = 2492

-----------------------------------------------------------------------------
(* Properties of the interval tests *)

Classified == phase = "done" /\ probeResult # NotRun

\* lo <= mean <= hi for the intervals classified, the mean being sum/n.
MeanWithin(lo, hi) ==
    /\ lo * Len(probe.intervals) <= SeqSum(probe.intervals)
    /\ SeqSum(probe.intervals) <= hi * Len(probe.intervals)

\* C3: the ranges are tested in the order monthly, quarterly, semi-annual,
\* annual, biweekly, weekly, else 'irregular'.  The first four ranges are
\* disjoint, so each is returned exactly on its range; biweekly is returned
\* on all of [7,14] and weekly only on [1,7) (a mean of exactly 7 is
\* biweekly); [30,40] is regular and monthly, [30,30,30] is monthly.
C3_FrequencyRanges ==
    (Classified /\ Len(probe.intervals) > 0) =>
        /\ probeResult.frequency = "monthly" <=> MeanWithin(25, 35)
        /\ probeResult.frequency = "quarterly" <=> MeanWithin(80, 100)
        /\ probeResult.frequency = "semi-annual" <=> MeanWithin(170, 190)
        /\ probeResult.frequency = "annual" <=> MeanWithin(350, 380)
        /\ probeResult.frequency = "biweekly" <=> MeanWithin(7, 14)
        /\ probeResult.frequency = "weekly" <=> (MeanWithin(1, 7) /\ ~MeanWithin(7, 7))
        /\ probeResult.frequency = "irregular" <=>
              ~(\/ MeanWithin(25, 35) \/ MeanWithin(80, 100) \/ MeanWithin(170, 190)
                \/ MeanWithin(350, 380) \/ MeanWithin(1, 14))
        /\ probe.intervals = <<30, 40>> =>
              probeResult.regular /\ probeResult.frequency = "monthly"
        /\ probe.intervals = <<30, 30, 30>> => probeResult.frequency = "monthly"

\* A list of more than one interval whose mean is exactly 7 was classified
\* 'biweekly'.
C3_Witness ==
    /\ Classified
    /\ Len(probe.intervals) > 1
    /\ MeanWithin(7, 7)
    /\ probeResult.frequency = "biweekly"

\* C7: the confidence is 'high' when occurrences >= 4 and the intervals pass
\* the regularity test, otherwise 'medium' when occurrences >= 3, otherwise
\* 'low'; for a group that is emitted (at least 2 occurrences, one more than
\* its intervals, which pass the regularity test) it is 'high' exactly with
\* 4 or more occurrences, 'medium' exactly with 3 and 'low' exactly with 2.
C7_Confidence ==
    Classified =>
        /\ probeResult.confidence =
              (IF probe.occurrences >= 4 /\ MostlyNearMean(probe.intervals) THEN "high"
               ELSE IF probe.occurrences >= 3 THEN "medium"
               ELSE "low")
        /\ (/\ probeResult.regular
            /\ probe.occurrences = Len(probe.intervals) + 1) =>
              /\ probeResult.confidence = "high" <=> probe.occurrences >= 4
              /\ probeResult.confidence = "medium" <=> probe.occurrences = 3
              /\ probeResult.confidence = "low" <=> probe.occurrences = 2

\* Four payments 30 days apart: confidence 'high'.
C7_Witness ==
    /\ Classified
    /\ probe.occurrences = 4
    /\ probe.intervals = <<30, 30, 30>>
    /\ probeResult.regular
    /\ probeResult.confidence = "high"

-----------------------------------------------------------------------------
(* Properties of calculateVelocity *)

VelocityRank(v) == CASE v = "low" -> 0 [] v = "moderate" -> 1 [] v = "high" -> 2

\* C11: for days > 0 the velocity is 'low' when count/days*7 < 2, 'moderate'
\* when 2 <= count/days*7 < 7 and 'high' when count/days*7 >= 7 (the
\* comparisons multiplied through by days); exactly 2 a week is 'moderate',
\* exactly 7 a week is 'high', and no smaller count over the same days has a
\* higher class.
C11_Velocity ==
    phase = "done" =>
        LET n == probe.transactionCount
            d == probe.days
        IN  /\ probeResult = "low" <=> n * 7 < 2 * d
            /\ probeResult = "moderate" <=> (2 * d <= n * 7 /\ n * 7 < 7 * d)
            /\ probeResult = "high" <=> n * 7 >= 7 * d
            /\ n * 7 = 2 * d => probeResult = "moderate"
            /\ n = d => probeResult = "high"
            /\ \A m \in 0..n :
                  VelocityRank(calculateVelocity(m, d)) <= VelocityRank(probeResult)

\* 4 transactions in 14 days, exactly 2 a week, classified 'moderate'.
C11_Witness ==
    /\ phase = "done"
    /\ probe.transactionCount = 4
    /\ probe.days = 14
    /\ probeResult = "moderate"

-----------------------------------------------------------------------------
(* Properties of categorizeTransaction *)

\* The keyword occurs in the description at position i, letter case apart.
OccursAt(description, keyword, i) ==
    /\ i + Len(keyword) - 1 <= Len(description)
    /\ \A j \in DOMAIN keyword : ToLowerChar(description[i + j - 1]) = keyword[j]

Mentions(description, keywords) ==
    \E k \in DOMAIN keywords :
        \E i \in DOMAIN description : OccursAt(description, keywords[k], i)

\* C13: the category is one of the six; it is the first of Food & Dining,
\* Transportation, Shopping, Entertainment, Bills & Utilities one of whose
\* keywords occurs in the description, letter case apart, and 'Other'
\* exactly when no keyword occurs; 'Whole Foods Store' is Food & Dining; a
\* description has one category, the one categorizeTransaction gives it on
\* every call.
C13_FirstMatchWins ==
    phase = "done" =>
        LET d == probe.description
            food == Mentions(d, FoodKeywords)
            transportation == Mentions(d, TransportationKeywords)
            shopping == Mentions(d, ShoppingKeywords)
            entertainment == Mentions(d, EntertainmentKeywords)
            bills == Mentions(d, BillsKeywords)
        IN  /\ probeResult \in Categories
            /\ probeResult = "Food & Dining" <=> food
            /\ probeResult = "Transportation" <=> (~food /\ transportation)
            /\ probeResult = "Shopping" <=> (~food /\ ~transportation /\ shopping)
            /\ probeResult = "Entertainment" <=>
                  (~food /\ ~transportation /\ ~shopping /\ entertainment)
            /\ probeResult = "Bills & Utilities" <=>
                  (~food /\ ~transportation /\ ~shopping /\ ~entertainment /\ bills)
            /\ probeResult = "Other" <=>
                  ~(food \/ transportation \/ shopping \/ entertainment \/ bills)
            /\ d = WholeFoodsStore => probeResult = "Food & Dining"
            /\ probeResult = categorizeTransaction(d)

\* 'Whole Foods Store', which holds a Food & Dining keyword and a Shopping
\* one, was categorized Food & Dining.
C13_Witness ==
    /\ phase = "done"
    /\ probe.description = WholeFoodsStore
    /\ Mentions(probe.description, ShoppingKeywords)
    /\ probeResult = "Food & Dining"

-----------------------------------------------------------------------------
(* Properties of the next-payment estimate *)

LeapYear(y) == (y % 4 = 0 /\ y % 100 # 0) \/ y % 400 = 0

DaysInMonth(y, m) ==
    IF m = 2 THEN (IF LeapYear(y) THEN 29 ELSE 28)
    ELSE IF m \in {4, 6, 9, 11} THEN 30
    ELSE 31

\* The calendar date k months (k <= 12) after a date: the same day of the
\* month k months on; a day the month reached does not have (the 31st, or
\* the 29th to 31st in February) runs over into the month after it.
MonthsLater(date, k) ==
    LET m0 == date.month - 1 + k
        y == date.year + (m0 \div 12)
        m == (m0 % 12) + 1
    IN  IF date.day <= DaysInMonth(y, m)
        THEN [year |-> y, month |-> m, day |-> date.day]
        ELSE [year |-> IF m = 12 THEN y + 1 ELSE y,
              month |-> IF m = 12 THEN 1 ELSE m + 1,
              day |-> date.day - DaysInMonth(y, m)]

\* The latest date of a group.
LastOf(key) == CHOOSE t \in { Local(Groups[key][n]) : n \in DOMAIN Groups[key] } :
                   \A n \in DOMAIN Groups[key] : Local(Groups[key][n]) <= t

\* C14: the estimated_next of every subscription is the date of its last
\* occurrence 7 days later for weekly and 14 for biweekly, and 1, 3, 6 and
\* 12 calendar months later for monthly, quarterly, semi-annual and annual
\* (same day of the month; a day the month reached does not have runs over
\* into the next month); for 'irregular' and 'unknown' it is 'unknown' and
\* no date.
C14_EstimatedNext ==
    Detected =>
        \A i \in DOMAIN subscriptions :
            LET sub == subscriptions[i]
                last == LastOf(KeyOfSubscription(sub))
                lastDate == CivilFromDays(last \div HoursPerDay)
            IN  /\ sub.last_occurrence = lastDate
                /\ sub.frequency = "weekly" =>
                      sub.estimated_next =
                          [known |-> TRUE,
                           date |-> CivilFromDays((last + 7 * HoursPerDay) \div HoursPerDay)]
                /\ sub.frequency = "biweekly" =>
                      sub.estimated_next =
                          [known |-> TRUE,
                           date |-> CivilFromDays((last + 14 * HoursPerDay) \div HoursPerDay)]
                /\ sub.frequency = "monthly" =>
                      sub.estimated_next = [known |-> TRUE, date |-> MonthsLater(lastDate, 1)]
                /\ sub.frequency = "quarterly" =>
                      sub.estimated_next = [known |-> TRUE, date |-> MonthsLater(lastDate, 3)]
                /\ sub.frequency = "semi-annual" =>
                      sub.estimated_next = [known |-> TRUE, date |-> MonthsLater(lastDate, 6)]
                /\ sub.frequency = "annual" =>
                      sub.estimated_next = [known |-> TRUE, date |-> MonthsLater(lastDate, 12)]
                /\ sub.frequency \in {"irregular", "unknown"} =>
                      sub.estimated_next = UnknownDate
                /\ sub.estimated_next.known <=>
                      sub.frequency \in {"weekly", "biweekly", "monthly", "quarterly",
                                         "semi-annual", "annual"}

\* Four payments 30 days apart, the last on 2024-12-31: a monthly
\* subscription whose next payment is estimated for 2025-01-31.
C14_Witness ==
    /\ Detected
    /\ Len(subscriptions) = 1
    /\ subscriptions[1].occurrences = 4
    /\ GroupIntervals(KeyOfSubscription(subscriptions[1])) = <<30, 30, 30>>
    /\ subscriptions[1].frequency = "monthly"
    /\ subscriptions[1].last_occurrence = [year |-> 2024, month |-> 12, day |-> 31]
    /\ subscriptions[1].estimated_next.known
    /\ subscriptions[1].estimated_next.date = [year |-> 2025, month |-> 1, day |-> 31]

-----------------------------------------------------------------------------
(* Properties of generateWarnings *)

Warned == phase = "done" /\ warnings # << >>

Tips == { i \in DOMAIN warnings : warnings[i].msg = "tip" }

\* C15: with no subscription the warnings are the one 'none detected'
\* message; otherwise the first warning is the monthly-total summary, and
\* the savings tip is there exactly when the total is above 50.00, once, as
\* the last warning, quoting 10% of the total to the cent.
C15_WarningsStructure ==
    Warned =>
        /\ subscriptions = << >> =>
              warnings = << [msg |-> "no subscriptions detected"] >>
        /\ subscriptions # << >> =>
              /\ warnings[1] = [msg |-> "monthly total", cents |-> monthlyCost]
              /\ \A i \in DOMAIN warnings :
                    /\ warnings[i].msg # "no subscriptions detected"
                    /\ warnings[i].msg = "monthly total" => i = 1
              /\ Tips # {} <=> monthlyCost > 5000
              /\ \A i \in Tips :
                    /\ i = Len(warnings)
                    /\ 2 * Abs(10 * warnings[i].cents - monthlyCost) <= 10

\* A total above 50.00: the summary first, other warnings, the tip last.
C15_Witness ==
    /\ Warned
    /\ monthlyCost > 5000
    /\ Len(warnings) >= 4
    /\ warnings[1].msg = "monthly total"
    /\ warnings[Len(warnings)].msg = "tip"

\* The subscriptions whose merchant holds a keyword of the category.
InCategory(category) ==
    { i \in DOMAIN subscriptions :
        Mentions(subscriptions[i].merchant, KnownPatterns[category]) }

RECURSIVE MerchantsOf(_, _)
MerchantsOf(S, i) ==
    IF i > Len(subscriptions) THEN << >>
    ELSE (IF i \in S THEN << subscriptions[i].merchant >> ELSE << >>)
         \o MerchantsOf(S, i + 1)

Suggestions(category) ==
    { i \in DOMAIN warnings :
        /\ warnings[i].msg = "multiple subscriptions"
        /\ warnings[i].category = category }

\* C20: for each of streaming, music, cloud, fitness and software there is
\* a consolidation suggestion exactly when 2 or more of the subscriptions
\* have a merchant holding one of its keywords, letter case apart; there is
\* one at most, and it names the merchant of each such subscription once,
\* however many of the keywords the merchant holds.
C20_Consolidation ==
    (Warned /\ subscriptions # << >>) =>
        /\ \A i \in DOMAIN warnings :
              warnings[i].msg = "multiple subscriptions" =>
                  warnings[i].category \in
                      {"streaming", "music", "cloud", "fitness", "software"}
        /\ \A category \in {"streaming", "music", "cloud", "fitness", "software"} :
              /\ Suggestions(category) # {} <=> Cardinality(InCategory(category)) >= 2
              /\ Cardinality(Suggestions(category)) <= 1
              /\ \A i \in Suggestions(category) :
                    warnings[i].merchants = MerchantsOf(InCategory(category), 1)

\* Spotify is named in the streaming suggestion and in the music one, and a
\* merchant holding two streaming keywords is named once.
C20_Witness ==
    /\ Warned
    /\ Len(subscriptions) = 3
    /\ \E i \in Suggestions("streaming") :
          \E k \in DOMAIN warnings[i].merchants :
              warnings[i].merchants[k] = SpotifyPremium
    /\ \E i \in Suggestions("music") :
          /\ Len(warnings[i].merchants) = 2
          /\ \E k \in DOMAIN warnings[i].merchants :
                warnings[i].merchants[k] = SpotifyPremium

-----------------------------------------------------------------------------
(* Properties of the tool handlers *)

Returned(c) == calls # NoCalls /\ calls[c].pc = "returned"

Succeeded(c) == Returned(c) /\ calls[c].result.success

\* C12: an invocation that analyses an empty list returns, for
\* analyze_spending, an analysis that holds the 'no transactions found'
\* summary and no other field, and for analyze_subscriptions an empty
\* subscriptions list, a total monthly cost of 0.00 and the single warning
\* 'no subscriptions detected'.
C12_EmptyList ==
    \A c \in DOMAIN calls :
        (Succeeded(c) /\ calls[c].transactions = << >>) =>
            /\ calls[c].tool = "analyze_spending" =>
                  /\ DOMAIN calls[c].result.analysis = {"summary"}
                  /\ calls[c].result.analysis.summary =
                        "No transactions found in the specified period"
                  /\ calls[c].result.total_transactions = 0
            /\ calls[c].tool = "analyze_subscriptions" =>
                  /\ calls[c].result.subscriptions = << >>
                  /\ calls[c].result.subscriptions_found = 0
                  /\ calls[c].result.total_monthly_cost = 0
                  /\ calls[c].result.warnings = << [msg |-> "no subscriptions detected"] >>

\* Both tools have returned for an empty list.
C12_Witness ==
    /\ Succeeded(1)
    /\ Succeeded(2)
    /\ calls[1].tool = "analyze_spending"
    /\ calls[2].tool = "analyze_subscriptions"
    /\ calls[1].transactions = << >>
    /\ calls[2].transactions = << >>
    /\ "summary" \in DOMAIN calls[1].result.analysis
    /\ Len(calls[2].result.warnings) = 1

\* C16: an invocation whose input is valid JSON without the use_mock key
\* returns a result made from mock data, having made no get_transactions
\* call.
C16_MockByDefault ==
    \A c \in DOMAIN calls :
        (/\ Returned(c)
         /\ calls[c].input.parses
         /\ "use_mock" \notin DOMAIN calls[c].input.fields) =>
            /\ calls[c].fetches = 0
            /\ calls[c].result.success
            /\ calls[c].result.is_mock

\* The value a numeric parameter is to have: the one supplied, else the
\* default.
SuppliedOr(input, key, default) ==
    IF input.parses /\ key \in DOMAIN input.fields THEN input.fields[key] ELSE default

\* C17: days is the value supplied, else 30; timeframe, minAmount and
\* maxAmount are the values supplied, else 6, 1.00 and 999.99; an input that
\* does not parse gives every default; and the analysis is run with these
\* values.
C17_DefaultsAndPassThrough ==
    \A c \in DOMAIN calls :
        /\ (calls[c].pc # "idle" /\ calls[c].tool = "analyze_spending") =>
              /\ calls[c].params.days = SuppliedOr(calls[c].input, "days", 30)
              /\ Succeeded(c) => calls[c].result.period_days = calls[c].params.days
        /\ (calls[c].pc # "idle" /\ calls[c].tool = "analyze_subscriptions") =>
              /\ calls[c].params.timeframeMonths =
                    SuppliedOr(calls[c].input, "timeframe_months", 6)
              /\ calls[c].params.minAmount =
                    SuppliedOr(calls[c].input, "min_amount", 1000)
              /\ calls[c].params.maxAmount =
                    SuppliedOr(calls[c].input, "max_amount", 999990)
              /\ Succeeded(c) =>
                    calls[c].result.analysis_period = calls[c].params.timeframeMonths

\* The results an invocation can return when it runs alone on the list it
\* has.
Alone(c) ==
    IF calls[c].tool = "analyze_spending"
    THEN SpendingResults(calls[c].params, calls[c].transactions)
    ELSE SubscriptionResults(calls[c].params, calls[c].transactions)

\* A step of one invocation leaves the other invocation's locals as they
\* are, and the analysis leaves the list handed to it, with every
\* transaction in it, as it is.
OwnStep ==
    \A c \in DOMAIN calls :
        /\ calls[c].pc = "analyse" => calls'[c].transactions = calls[c].transactions
        /\ calls'[c] # calls[c] =>
              \A other \in DOMAIN calls \ {c} : calls'[other] = calls[other]

AnalysisKey(c) ==
    IF calls[c].tool = "analyze_spending" THEN "analysis" ELSE "subscriptions"

\* What an invocation that fetches holds at each of its steps.
FetchThenAnalyse(c) ==
    /\ calls[c].pc = "data" => ~calls[c].response.called /\ calls[c].fetches = 0
    /\ calls[c].pc = "analyse" =>
          /\ calls[c].fetches = 1
          /\ ~calls[c].response.err
          /\ calls[c].response.success
          /\ calls[c].transactions = Decode(calls[c].response.data)
    /\ calls[c].pc = "returned" =>
          /\ calls[c].fetches = 1
          /\ calls[c].result.goError = "nil"
          /\ calls[c].response.err => calls[c].result = FetchError
          /\ (~calls[c].response.err /\ ~calls[c].response.success) =>
                calls[c].result = FetchFailed
          /\ calls[c].result.success <=>
                (~calls[c].response.err /\ calls[c].response.success)
          /\ ~calls[c].result.success =>
                DOMAIN calls[c].result = {"success", "error", "goError"}
          /\ calls[c].result.success =>
                /\ AnalysisKey(c) \in DOMAIN calls[c].result
                /\ calls[c].result \in Alone(c)
                /\ ~calls[c].response.data.decodes =>
                      /\ calls[c].transactions = << >>
                      /\ calls[c].tool = "analyze_spending" =>
                            calls[c].result.total_transactions = 0
                      /\ calls[c].tool = "analyze_subscriptions" =>
                            calls[c].result.total_transactions_scanned = 0

\* A failure is returned straight from the fetch, a success from the
\* analysis, and the analysis is entered from the fetch.
FetchOrder ==
    \A c \in DOMAIN calls :
        (/\ calls[c].pc # "idle"
         /\ ~calls[c].params.useMock
         /\ calls'[c].pc # calls[c].pc) =>
            /\ calls'[c].pc = "analyse" => calls[c].pc = "data"
            /\ (calls'[c].pc = "returned" /\ ~calls'[c].result.success) =>
                  calls[c].pc = "data"
            /\ (calls'[c].pc = "returned" /\ calls'[c].result.success) =>
                  calls[c].pc = "analyse"

\* C21: an invocation with use_mock = false fetches, then analyses, then
\* returns: an error or a response with Success = false gives a result with
\* Success = false, an error message and a nil error, with no analysis run;
\* a result with Success = true comes only after a successful fetch and
\* carries the analysis of the decoded list, which is empty when the
\* payload does not decode.
C21_FetchAnalyseReturn ==
    /\ [](\A c \in DOMAIN calls :
             (calls[c].pc # "idle" /\ ~calls[c].params.useMock) => FetchThenAnalyse(c))
    /\ [][FetchOrder]_vars

\* One invocation has returned the failure of its fetch, the other the
\* analysis of a payload that did not decode.
C21_Witness ==
    /\ Returned(1)
    /\ Returned(2)
    /\ ~calls[1].result.success
    /\ calls[1].response.called
    /\ calls[2].result.success
    /\ ~calls[2].response.data.decodes
    /\ calls[2].fetches = 1

-----------------------------------------------------------------------------
(* Properties of the detector on a reordered list *)

Elements(seq) == { seq[i] : i \in DOMAIN seq }

\* C22: the same transactions in any other order give the same set of
\* subscriptions, each with the same merchant, amount, frequency,
\* occurrences, last_occurrence, estimated_next, total_paid and confidence,
\* and the same total monthly cost.
C22_OrderOfTransactions ==
    phase = "reordered" =>
        /\ Elements(probeResult.subscriptions) = Elements(subscriptions)
        /\ probeResult.monthlyCost = monthlyCost

\* The six ranges of the mean interval that name a frequency, in days.
FrequencyRanges ==
    { <<1, 7>>, <<7, 14>>, <<25, 35>>, <<80, 100>>, <<170, 190>>, <<350, 380>> }

\* The mean of the intervals, sum/n, lies in none of the ranges.
MeanInNoRange(intervals) ==
    \A range \in FrequencyRanges :
        \/ SeqSum(intervals) < range[1] * Len(intervals)
        \/ SeqSum(intervals) > range[2] * Len(intervals)

Irregular == { i \in DOMAIN subscriptions : subscriptions[i].frequency = "irregular" }

\* The normalised amounts of the subscriptions that are not 'irregular'.
TotalOfTheOthers ==
    SumOver([i \in DOMAIN subscriptions |->
                subscriptions[i].amount * FactorIn12000ths(subscriptions[i].frequency)],
            DOMAIN subscriptions \ Irregular)

\* C23: a group that passes the regularity test with a mean interval in
\* none of the frequency ranges (a mean of 20 days, the single interval 0
\* of two payments at the same instant) is emitted with frequency
\* 'irregular' and estimated_next 'unknown', and adds 0 to the total monthly
\* cost: the total is that of the other subscriptions, and 0 when every
\* subscription found is 'irregular'.
C23_IrregularStillEmitted ==
    Detected =>
        /\ \A key \in DOMAIN Groups :
              (/\ Len(Groups[key]) >= 2
               /\ MostlyNearMean(GroupIntervals(key))
               /\ MeanInNoRange(GroupIntervals(key)))
              => \E i \in Irregular :
                    /\ KeyOfSubscription(subscriptions[i]) = key
                    /\ subscriptions[i].estimated_next = UnknownDate
        /\ monthlyCost = (2 * TotalOfTheOthers + 12000) \div 24000
        /\ Irregular = DOMAIN subscriptions => monthlyCost = 0

\* Two subscriptions were found, one of payments 20 days apart and one of
\* two payments at the same instant, and the total monthly cost is 0.
C23_Witness ==
    /\ Detected
    /\ Len(subscriptions) = 2
    /\ Irregular = DOMAIN subscriptions
    /\ \E key \in EmittedKeys : GroupIntervals(key) = <<20>>
    /\ \E key \in EmittedKeys : GroupIntervals(key) = <<0>>
    /\ monthlyCost = 0

\* The dates of a group that no date of the group is later than.
LatestOf(key) ==
    { Groups[key][n] : n \in { n \in DOMAIN Groups[key] :
          \A m \in DOMAIN Groups[key] : Groups[key][m].t <= Groups[key][n].t } }

\* What C24 says of one returned slice.
WellFormedResult(subs) ==
    /\ \A i \in DOMAIN subs :
          LET sub == subs[i]
          IN  /\ sub.occurrences >= 2
              /\ sub.frequency \in { "weekly", "biweekly", "monthly", "quarterly",
                                      "semi-annual", "annual", "irregular" }
              /\ sub.frequency # "unknown"
              /\ sub.total_paid = sub.amount * sub.occurrences
              /\ KeyOfSubscription(sub) \in DOMAIN Groups
              /\ sub.last_occurrence \in
                    { FormatDate(Local(date)) : date \in LatestOf(KeyOfSubscription(sub)) }
    /\ \A i, j \in DOMAIN subs :
          i # j => KeyOfSubscription(subs[i]) # KeyOfSubscription(subs[j])
    /\ SumOver([i \in DOMAIN subs |-> subs[i].occurrences], DOMAIN subs)
          <= Cardinality(Passing)

\* C24: every subscription returned has occurrences >= 2, a frequency
\* among weekly, biweekly, monthly, quarterly, semi-annual, annual and
\* irregular (never 'unknown'), total_paid = amount * occurrences and as
\* last_occurrence the date of a latest payment of its group; no two share
\* their (merchant, amount); and the occurrences add up to no more than the
\* transactions that passed the filters.  It holds of the list as supplied
\* and of the same list in any other order.
C24_SubscriptionsWellFormed ==
    /\ Detected => WellFormedResult(subscriptions)
    /\ phase = "reordered" => WellFormedResult(probeResult.subscriptions)

\* A subscription of three payments supplied out of date order was found
\* among four transactions, one of which the filters dropped.
C24_Witness ==
    /\ phase = "reordered"
    /\ Len(transactions) = 4
    /\ Cardinality(Passing) = 3
    /\ probe.transactions[1].date.t > probe.transactions[2].date.t
    /\ \E i \in DOMAIN probeResult.subscriptions :
          /\ probeResult.subscriptions[i].occurrences = 3
          /\ probeResult.subscriptions[i].frequency = "monthly"
          /\ probeResult.subscriptions[i].total_paid = 4797

=============================================================================
